---- MODULE Spec2Model ----
(***************************************************************************)
(* node-ts-cache: the cache container (cacheContainer.ts), the in-memory   *)
(* LRU storage (lruStorage.ts) and the stale-while-revalidate wrapper      *)
(* (withCache.ts) with its p-queue revalidation queues.                    *)
(*                                                                         *)
(* One step of the model is one run-to-suspension of the event loop: the   *)
(* code between two awaits of one async function.  An async function's     *)
(* body runs synchronously up to its first await, so a call of             *)
(* LRUStorage.getItem/setItem/removeItem touches the map in the step that  *)
(* issues the call, and the caller resumes in a later step.                *)
(***************************************************************************)
EXTENDS Integers, Sequences, FiniteSets, TLC

\* ------------------------------------------------------------------ bounds
\* Spec: concurrent callers
MaxTime == 3
MaxInvocations == 3
NumCallers == 2
\* SpecQueue: one caller, more invocations, so that several jobs queue up
MaxInvocationsQueue == 5
NumCallersQueue == 1
\* SpecPrefix: one caller, two prefixes of the operation
MaxInvocationsPrefix == 4
\* SpecFallback: a FallbackStorage over three storages
NumStorages == 3
MaxFallbackCalls == 3
\* SpecContainer: direct use of one container
MaxTimeContainer == 4
MaxTtl == 2

\* null (and undefined) of a ttl / staleTtl: cacheContainer.ts:80-83
Null == -1

Callers == 1..NumCallers

\* An absent value: undefined item, undefined cachedResponse, missing queue.
Absent == [absent |-> TRUE]

\* ------------------------------------------------------------ parameters
\* The argument lists the wrapped operation is called with.
Params == {[type |-> "number", value |-> 1], [type |-> "number", value |-> 2]}

\* The digest of an object: every property enters it, so objects that differ
\* in a property have different digests (and none is the digest of a number
\* of Params).
objectDigest(obj) == 2 * obj.id + (IF obj.name = "Alice" THEN 1 ELSE 2)

\* hash.ts:10-13: node-object-hash with coerce: the digest is taken of the
\* value's string form, the type of a primitive does not enter it.
hash(parameters) ==
    IF parameters.type = "object" THEN objectDigest(parameters.value)
    ELSE parameters.value

\* Argument lists of one object each: objects of one id and different names.
ObjectParams ==
    {[type |-> "object", value |-> [id |-> 1, name |-> "Alice"]],
     [type |-> "object", value |-> [id |-> 1, name |-> "Bob"]]}

\* A calculateKey of the caller's: the id of the object passed
\* (withCache.test.ts:90-93).  Key-function results are numbers throughout;
\* no run mixes wrappers that use hash with wrappers that use keyById.
keyById(parameters) == parameters.value.id

\* ---------------------------------------------------------------- wrappers
\* A wrapper is one withCache(operation, options) closure (withCache.ts:55-68):
\* operation is the function wrapped (here the one declared under name), name
\* is operation.name, the rest are the destructured options; calculateKey
\* defaults to hash (line 63).
Wrapper(name, prefix, cacheTimeMs, staleTimeMs, concurrency, shouldStore, container) ==
    [operation |-> name, name |-> name, prefix |-> prefix,
     cacheTimeMs |-> cacheTimeMs, staleTimeMs |-> staleTimeMs,
     concurrency |-> concurrency, shouldStore |-> shouldStore,
     container |-> container, calculateKey |-> "hash"]

\* The containers of a run; DirectContainers are those used directly and by
\* the wrappers of a single container.
DirectContainers == {"A"}
Containers == DirectContainers \cup {"B"}

\* swr, concurrency 1 (the default), shouldStore default (always true)
WSwr1 == Wrapper("f", "default", 1, 2, 1, "always", "A")
\* the same operation and prefix with revalidationConcurrency 2 and a
\* shouldStore predicate of the caller's
WSwr2 == Wrapper("f", "default", 1, 2, 2, "predicate", "A")
\* the defaults: cacheTimeMs = 0 and staleTimeMs = 0
WOff == Wrapper("f", "default", 0, 0, 1, "always", "A")

WrappersSpec == {WSwr1, WSwr2, WOff}

\* a ttl and no stale window: cacheTimeMs 1, staleTimeMs left at its default
WEager == Wrapper("f", "default", 1, 0, 1, "always", "A")
\* the same operation under another prefix, revalidationConcurrency 1
WOther == Wrapper("f", "other", 1, 2, 1, "always", "A")

\* another function whose name is "f" as well (two functions declared under
\* one name in different scopes, or two anonymous ones), wrapped with the
\* options of WSwr1
WSameName == [WSwr1 EXCEPT !.operation = "f'"]

\* the wrapper of WSwr1's operation and options bound to another container
WShared == [WSwr1 EXCEPT !.container = "B"]

AllWrappers == WrappersSpec \cup {WEager, WOther, WSameName, WShared}

\* the options of WEager and a calculateKey of the caller's
WKeyed == [WEager EXCEPT !.calculateKey = "keyById"]

\* withCache.ts:71: the key function applied to the parameters
calculateKey(w, parameters) ==
    IF w.calculateKey = "hash" THEN hash(parameters) ELSE keyById(parameters)

\* the key, if the prefix did not enter it
CacheKeyWithoutPrefix(w, parameters) ==
    <<w.name, "default", calculateKey(w, parameters)>>

\* the key, if calculateKey were ignored and the parameters always hashed
CacheKeyOfHash(w, parameters) == <<w.name, w.prefix, hash(parameters)>>

\* withCache.ts:70-72
CacheKey(w, parameters) == <<w.name, w.prefix, calculateKey(w, parameters)>>
\* queueName, if it left the prefix out
queueNameWithoutPrefix(w) == <<w.name, "default">>

\* withCache.ts:74
queueName(w) == <<w.name, w.prefix>>

\* decorator.ts:6-14: the key of a decorated method's call.  JSON.stringify
\* of the argument list is kept as the argument itself (one number), which
\* it determines.
jsonCalculateKey(className, methodName, args) == <<className, methodName, args>>

\* The argument lists and keys of the decorated method C.m
DecoratedArgs == {1, 2}
DecoratedKeys == {jsonCalculateKey("C", "m", a) : a \in DecoratedArgs}

AllKeys ==
    {CacheKey(w, p) : w \in AllWrappers, p \in Params}
        \cup {CacheKey(WKeyed, p) : p \in ObjectParams}
        \cup DecoratedKeys
QueueNames == {queueName(w) : w \in AllWrappers}

\* withCache.ts:66 and 13: what shouldStore may answer for a result.  The
\* default answers true; a caller's predicate is any function of the result,
\* and as every result is a new one it may answer either way.
shouldStore(w) ==
    IF w.shouldStore = "always" THEN {TRUE} ELSE BOOLEAN

\* ------------------------------------------------------------- LRUStorage
\* lruStorage.ts: a map from key to CachedItem; max (10 000) is never reached
\* by the keys of the model, so no entry is dropped for capacity.
LRUGetItem(cache, key) == cache[key]
\* LRUStorage.setItem, if it kept the entry a key already has
LRUSetItemIfAbsent(cache, key, content) ==
    IF cache[key] = Absent THEN [cache EXCEPT ![key] = content] ELSE cache

LRUSetItem(cache, key, content) == [cache EXCEPT ![key] = content]
LRURemoveItem(cache, key) == [cache EXCEPT ![key] = Absent]
\* a clear that drops no entry
LRUClearKeepsEntries(cache) == cache

LRUClear(cache) == [k \in DOMAIN cache |-> Absent]

\* ---------------------------------------------------------- CacheContainer
\* isItemExpired with the ttl boundary taken as already expired
isItemExpiredExclusive(item, t) ==
    IF item.meta.ttl = Null THEN FALSE
    ELSE t >= item.meta.createdAt + item.meta.ttl

\* isItemExpired without the test for a null ttl: null + createdAt is createdAt
isItemExpiredNullAsZero(item, t) ==
    t > item.meta.createdAt + (IF item.meta.ttl = Null THEN 0 ELSE item.meta.ttl)

\* cacheContainer.ts:112-115, t is the value Date.now() returns
isItemExpired(item, t) ==
    IF item.meta.ttl = Null THEN FALSE
    ELSE t > item.meta.createdAt + item.meta.ttl

\* cacheContainer.ts:117-121: t1 is the Date.now() of the nested
\* isItemExpired, t2 the Date.now() of line 120
isStaleItem(item, t1, t2) ==
    IF ~isItemExpired(item, t1) THEN FALSE
    ELSE IF item.meta.staleTtl = Null THEN FALSE
    ELSE t2 <= item.meta.createdAt + item.meta.staleTtl

\* cacheContainer.ts:46-57: state from the two flags; t3 is the Date.now()
\* of the isItemExpired call of line 47
getItemState(item, t1, t2, t3) ==
    IF isStaleItem(item, t1, t2) THEN "stale"
    ELSE IF isItemExpired(item, t3) THEN "expired"
    ELSE "fresh"

\* cacheContainer.ts:59-65
getItemResult(item, state) ==
    [content |-> item.content,
     meta |-> [createdAt |-> item.meta.createdAt, ttl |-> item.meta.ttl,
               staleTtl |-> item.meta.staleTtl, state |-> state]]

\* unsetKey that does not reach the storage
unsetKeySkipped(store, container, key) == store

\* cacheContainer.ts:123-125: unsetKey runs to its await of
\* storage.removeItem (lruStorage.ts:25-27)
unsetKey(store, container, key) ==
    [store EXCEPT ![container] = LRURemoveItem(@, key)]

\* the adjustment of lines 86-95 left out: staleTtl stored as supplied
finalStaleTtlUnadjusted(ttl, staleTtl) == staleTtl

\* the adjustment of lines 86-95, if it raised a short staleTtl to ttl only
finalStaleTtlClamped(ttl, staleTtl) ==
    IF staleTtl # Null /\ staleTtl # 0 /\ ttl # Null /\ ttl # 0 /\ staleTtl < ttl
    THEN ttl
    ELSE staleTtl

\* cacheContainer.ts:86-95: the staleTtl that is stored
finalStaleTtl(ttl, staleTtl) ==
    IF staleTtl # Null /\ staleTtl # 0 /\ ttl # Null /\ ttl # 0 /\ staleTtl < ttl
    THEN ttl + staleTtl
    ELSE staleTtl

\* setItem, if it did not stamp the entry with the time of the write
setItemValueUnstamped(content, ttl, staleTtl, t) ==
    [content |-> content,
     meta |-> [createdAt |-> 0, ttl |-> ttl,
               staleTtl |-> finalStaleTtl(ttl, staleTtl)]]

\* cacheContainer.ts:97-103: the item setItem hands to the storage at time t
setItemValue(content, ttl, staleTtl, t) ==
    [content |-> content,
     meta |-> [createdAt |-> t, ttl |-> ttl,
               staleTtl |-> finalStaleTtl(ttl, staleTtl)]]

\* ------------------------------------------------------------------ PQueue
\* The p-queue instance behind revalidationQueues[queueName]
\* (withCache.ts:76-81, 117-123).  pending counts the jobs started and not
\* yet passed to next(); runningTasks holds the jobs whose function has not
\* settled; queue holds the jobs not started, in admission order.
NewPQueue(concurrency) ==
    [concurrency |-> concurrency, pending |-> 0, queue |-> <<>>,
     runningTasks |-> {}]

\* A job: the refreshedItem closure of the call that added it, with id key
Job(key, w, parameters) == [id |-> key, w |-> w, parameters |-> parameters]

\* a queue that starts jobs whatever its concurrency
canStartAnotherUnlimited(q) == Len(q.queue) > 0

\* the concurrency ceiling: another job starts only below it
canStartAnother(q) == Len(q.queue) > 0 /\ q.pending < q.concurrency

\* qs pairs a queue q with the count n of operation invocations made so far.
\* The head job starts: it is counted, enters runningTasks (with a startTime,
\* Date.now(), which is never 0) and its function runs up to its first await,
\* which is refreshedItem's call of the operation (withCache.ts:86).
startJob(qs) ==
    LET job == Head(qs.q.queue) IN
    [q |-> [qs.q EXCEPT !.queue = Tail(@),
                        !.pending = @ + 1,
                        !.runningTasks = @ \cup
                            {[id |-> job.id, w |-> job.w,
                              parameters |-> job.parameters,
                              inv |-> qs.n + 1, pc |-> "operation",
                              stored |-> FALSE]}],
     n |-> qs.n + 1]

tryToStartAnother(qs) == IF canStartAnother(qs.q) THEN startJob(qs) ELSE qs

RECURSIVE processQueue(_)
processQueue(qs) == IF canStartAnother(qs.q) THEN processQueue(startJob(qs)) ELSE qs

\* the concurrency setter, if the queue kept the limit it was created with
setConcurrencyIgnored(qs, concurrency) == qs

\* withCache.ts:81: the concurrency setter
setConcurrency(qs, concurrency) ==
    processQueue([qs EXCEPT !.q.concurrency = concurrency])

\* withCache.ts:121-123: add(refreshedItem, {id: key})
add(qs, job) == tryToStartAnother([qs EXCEPT !.q.queue = Append(@, job)])

\* the microtask a settled job schedules
next(qs) == tryToStartAnother([qs EXCEPT !.q.pending = @ - 1])

\* withCache.ts:117-119
isRunning(q, key) == \E t \in q.runningTasks : t.id = key

\* ------------------------------------------------------------------- state
VARIABLES
    now,                  \* Date.now(), as an offset from the start
    storage,              \* storage[container][key]: the LRU map of a container
    calls,                \* calls[c]: the call a caller has in progress
    revalidationQueues,   \* withCache.ts:5
    invocations,          \* how many times the operation has been invoked
    unhandledRejections,  \* promises whose rejection no handler received
    wrappers,             \* the wrappers that exist in this run
    limits,               \* the bounds of this run
    fallback,             \* a FallbackStorage, its storages and its calls
    decorated             \* a class with a method decorated with Cache

vars == <<now, storage, calls, revalidationQueues, invocations,
          unhandledRejections, wrappers, limits, fallback, decorated>>

NoReturn == [kind |-> "none"]
IdleCall ==
    [pc |-> "idle", via |-> "none", w |-> Absent, container |-> "A",
     key |-> <<>>, parameters |-> Absent, item |-> Absent,
     cachedResponse |-> Absent, state |-> "none", inv |-> 0,
     result |-> Absent, stored |-> FALSE, ret |-> NoReturn]

InitState ==
    /\ now = 0
    /\ storage = [s \in Containers |-> [k \in AllKeys |-> Absent]]
    /\ calls = [c \in Callers |-> IdleCall]
    /\ revalidationQueues = [qn \in QueueNames |-> Absent]
    /\ invocations = 0
    /\ unhandledRejections = {}
    /\ fallback = Absent
    /\ decorated = Absent

Limits(callers, maxInvocations, maxTime) ==
    [callers |-> 1..callers, invocations |-> maxInvocations, time |-> maxTime]

Init ==
    /\ InitState
    /\ wrappers = WrappersSpec
    /\ limits = Limits(NumCallers, MaxInvocations, MaxTime)

\* --------------------------------------------------------------- the bound
RECURSIVE Queued(_)
Queued(names) ==
    IF names = {} THEN 0
    ELSE LET qn == CHOOSE x \in names : TRUE IN
         (IF revalidationQueues[qn] = Absent THEN 0
          ELSE Len(revalidationQueues[qn].queue)) + Queued(names \ {qn})

\* Invocations made, plus those the calls and jobs under way may still make.
Committed ==
    invocations + Queued(QueueNames)
    + Cardinality({c \in Callers : calls[c].via = "withCache"
                                   /\ calls[c].pc \in {"getItem", "unsetKey", "decide"}})

\* ------------------------------------------------ withCache.ts: the wrapper
\* withCache.ts:99
cachingDisabled(w) == w.cacheTimeMs = 0 /\ w.staleTimeMs = 0

\* withCache.ts:106, 115 read the classification of the cached response as
\* the flags expired (its ttl has passed: cacheContainer.ts:112-115) and
\* stale (its ttl has passed and it is within staleTtl:
\* cacheContainer.ts:117-121); getItem publishes the two as meta.state.
metaExpired(cachedResponse) == cachedResponse.meta.state # "fresh"
metaStale(cachedResponse) == cachedResponse.meta.state = "stale"

\* withCache.ts:106
isFreshResponse(cachedResponse) ==
    cachedResponse # Absent /\ ~metaExpired(cachedResponse)

\* withCache.ts:115
isStaleResponse(cachedResponse) ==
    cachedResponse # Absent /\ metaExpired(cachedResponse) /\ metaStale(cachedResponse)

Value(content) == [kind |-> "value", content |-> content]
Rejection(inv) == [kind |-> "error", content |-> [id |-> inv]]

\* withCache.ts:69-83: key, queueName, the queue and its concurrency, then
\* container.getItem(key), which runs to the await of cacheContainer.ts:42
\* and there calls LRUStorage.getItem (lruStorage.ts:16-19).
CallWrapped(c, w, parameters) ==
    /\ calls[c].pc = "idle"
    /\ c \in limits.callers
    /\ w \in wrappers
    /\ Committed < limits.invocations
    /\ LET key == CacheKey(w, parameters)
           qn == queueName(w)
           q0 == IF revalidationQueues[qn] = Absent
                 THEN NewPQueue(w.concurrency)
                 ELSE revalidationQueues[qn]
           qs == setConcurrency([q |-> q0, n |-> invocations], w.concurrency)
       IN /\ revalidationQueues' = [revalidationQueues EXCEPT ![qn] = qs.q]
          /\ invocations' = qs.n
          /\ calls' = [calls EXCEPT ![c] =
                 [IdleCall EXCEPT !.pc = "getItem", !.via = "withCache",
                                  !.w = w, !.container = w.container,
                                  !.key = key, !.parameters = parameters,
                                  !.item = LRUGetItem(storage[w.container], key)]]
    /\ UNCHANGED <<now, storage, unhandledRejections, wrappers, limits, fallback,
                   decorated>>

\* Where getItem's caller resumes: withCache (line 83) or a direct caller.
getItemReturn(call, response) ==
    IF call.via = "withCache"
    THEN [call EXCEPT !.pc = "decide", !.item = Absent,
                      !.cachedResponse = response]
    ELSE [call EXCEPT !.pc = "done", !.item = Absent, !.ret = Value(response)]

\* cacheContainer.ts:44-72: getItem resumes with the item the storage gave.
\* Date.now() is read up to three times (lines 114, 120, 114); the clock may
\* advance between the reads.  An expired item is removed (line 68).
getItemResume(c) ==
    /\ calls[c].pc = "getItem"
    /\ LET call == calls[c]
           item == call.item
       IN IF item = Absent
          THEN /\ calls' = [calls EXCEPT ![c] =
                      getItemReturn([call EXCEPT !.state = "none"], Absent)]
               /\ UNCHANGED <<now, storage>>
          ELSE \E d1, d2 \in 0..1 :
               /\ now + d1 + d2 <= limits.time
               /\ now' = now + d1 + d2
               /\ LET state == getItemState(item, now, now + d1, now + d1 + d2) IN
                  IF state = "expired"
                  THEN /\ storage' = unsetKey(storage, call.container, call.key)
                       /\ calls' = [calls EXCEPT ![c].pc = "unsetKey",
                                                 ![c].item = Absent,
                                                 ![c].state = state]
                  ELSE /\ storage' = storage
                       /\ calls' = [calls EXCEPT ![c] =
                               getItemReturn([call EXCEPT !.state = state],
                                             getItemResult(item, state))]
    /\ UNCHANGED <<revalidationQueues, invocations, unhandledRejections, wrappers, limits, fallback,
                   decorated>>

\* cacheContainer.ts:68-69: unsetKey has completed, getItem returns undefined
unsetKeyResume(c) ==
    /\ calls[c].pc = "unsetKey"
    /\ calls' = [calls EXCEPT ![c] = getItemReturn(calls[c], Absent)]
    /\ UNCHANGED <<now, storage, revalidationQueues, invocations,
                   unhandledRejections, wrappers, limits, fallback,
                   decorated>>

\* the disabled path, if it served a cached response when there is one
ReturnOperationCached(c) ==
    /\ calls[c].pc = "decide"
    /\ cachingDisabled(calls[c].w)
    /\ IF calls[c].cachedResponse # Absent
       THEN /\ invocations' = invocations
            /\ calls' = [calls EXCEPT ![c].pc = "done",
                                      ![c].ret = Value(calls[c].cachedResponse.content)]
       ELSE /\ invocations' = invocations + 1
            /\ calls' = [calls EXCEPT ![c].pc = "operationDirect",
                                      ![c].inv = invocations + 1]
    /\ UNCHANGED <<now, storage, revalidationQueues, unhandledRejections, wrappers, limits, fallback,
                   decorated>>

\* withCache.ts:99-101: return operation(...parameters)
ReturnOperation(c) ==
    /\ calls[c].pc = "decide"
    /\ cachingDisabled(calls[c].w)
    /\ invocations' = invocations + 1
    /\ calls' = [calls EXCEPT ![c].pc = "operationDirect",
                              ![c].inv = invocations + 1]
    /\ UNCHANGED <<now, storage, revalidationQueues, unhandledRejections, wrappers, limits, fallback,
                   decorated>>

\* the fresh branch, if it also queued a revalidation
ReturnFreshRevalidating(c) ==
    /\ calls[c].pc = "decide"
    /\ ~cachingDisabled(calls[c].w)
    /\ isFreshResponse(calls[c].cachedResponse)
    /\ LET qn == queueName(calls[c].w)
           qs == add([q |-> revalidationQueues[qn], n |-> invocations],
                     Job(calls[c].key, calls[c].w, calls[c].parameters))
       IN /\ revalidationQueues' = [revalidationQueues EXCEPT ![qn] = qs.q]
          /\ invocations' = qs.n
    /\ calls' = [calls EXCEPT ![c].pc = "done",
                              ![c].cachedResponse = Absent,
                              ![c].ret = Value(calls[c].cachedResponse.content)]
    /\ UNCHANGED <<now, storage, unhandledRejections, wrappers, limits, fallback,
                   decorated>>

\* withCache.ts:106-108
ReturnFresh(c) ==
    /\ calls[c].pc = "decide"
    /\ ~cachingDisabled(calls[c].w)
    /\ isFreshResponse(calls[c].cachedResponse)
    /\ calls' = [calls EXCEPT ![c].pc = "done",
                              ![c].cachedResponse = Absent,
                              ![c].ret = Value(calls[c].cachedResponse.content)]
    /\ UNCHANGED <<now, storage, revalidationQueues, invocations,
                   unhandledRejections, wrappers, limits, fallback,
                   decorated>>

\* withCache.ts:116-124: the queue after the stale branch has (or has not)
\* added refreshedItem
enqueueRevalidation(qs, call) ==
    IF ~isRunning(qs.q, call.key)
    THEN add(qs, Job(call.key, call.w, call.parameters))
    ELSE qs

\* the stale branch, if it awaited refreshedItem as the blocking path does
ReturnStaleAwaiting(c) ==
    /\ calls[c].pc = "decide"
    /\ ~cachingDisabled(calls[c].w)
    /\ ~isFreshResponse(calls[c].cachedResponse)
    /\ isStaleResponse(calls[c].cachedResponse)
    /\ invocations' = invocations + 1
    /\ calls' = [calls EXCEPT ![c].pc = "operation",
                              ![c].inv = invocations + 1]
    /\ UNCHANGED <<now, storage, revalidationQueues, unhandledRejections,
                   wrappers, limits, fallback, decorated>>

\* withCache.ts:115-127
ReturnStale(c) ==
    /\ calls[c].pc = "decide"
    /\ ~cachingDisabled(calls[c].w)
    /\ ~isFreshResponse(calls[c].cachedResponse)
    /\ isStaleResponse(calls[c].cachedResponse)
    /\ LET qn == queueName(calls[c].w)
           qs == enqueueRevalidation([q |-> revalidationQueues[qn],
                                      n |-> invocations], calls[c])
       IN /\ revalidationQueues' = [revalidationQueues EXCEPT ![qn] = qs.q]
          /\ invocations' = qs.n
    /\ calls' = [calls EXCEPT ![c].pc = "done",
                              ![c].cachedResponse = Absent,
                              ![c].ret = Value(calls[c].cachedResponse.content)]
    /\ UNCHANGED <<now, storage, unhandledRejections, wrappers, limits, fallback,
                   decorated>>

\* the miss path, if it started refreshedItem and returned without awaiting it
AwaitRefreshedItemDetached(c) ==
    /\ calls[c].pc = "decide"
    /\ ~cachingDisabled(calls[c].w)
    /\ ~isFreshResponse(calls[c].cachedResponse)
    /\ ~isStaleResponse(calls[c].cachedResponse)
    /\ invocations' = invocations + 1
    /\ calls' = [calls EXCEPT ![c].pc = "done",
                              ![c].inv = invocations + 1,
                              ![c].ret = Value(Absent)]
    /\ UNCHANGED <<now, storage, revalidationQueues, unhandledRejections, wrappers, limits, fallback,
                   decorated>>

\* withCache.ts:129 and 86: refreshedItem() runs to its await of the operation
AwaitRefreshedItem(c) ==
    /\ calls[c].pc = "decide"
    /\ ~cachingDisabled(calls[c].w)
    /\ ~isFreshResponse(calls[c].cachedResponse)
    /\ ~isStaleResponse(calls[c].cachedResponse)
    /\ invocations' = invocations + 1
    /\ calls' = [calls EXCEPT ![c].pc = "operation",
                              ![c].inv = invocations + 1]
    /\ UNCHANGED <<now, storage, revalidationQueues, unhandledRejections, wrappers, limits, fallback,
                   decorated>>

\* A result of the operation; id tells the invocations apart.
Result(inv) == [id |-> inv]

\* refreshedItem, if it wrote the result whatever shouldStore answered
refreshedItemStoreAlways(store, w, key, result, store_it, t) ==
    [store EXCEPT ![w.container] =
         LRUSetItem(@, key, setItemValue(result, w.cacheTimeMs, w.staleTimeMs, t))]

\* refreshedItem, if it never issued the write
refreshedItemStoreSkipped(store, w, key, result, store_it, t) == store

\* refreshedItem, if a result were stored only while the key has no entry
\* (the first write kept)
refreshedItemStoreIfAbsent(store, w, key, result, store_it, t) ==
    IF store_it /\ store[w.container][key] = Absent
    THEN [store EXCEPT ![w.container] =
              LRUSetItem(@, key, setItemValue(result, w.cacheTimeMs,
                                              w.staleTimeMs, t))]
    ELSE store

\* withCache.ts:87-92: refreshedItem, resumed with the operation's result at
\* time t: the storage of its container after container.setItem has run to
\* the await of cacheContainer.ts:103 (LRUStorage.setItem, lruStorage.ts:21-23)
refreshedItemStore(store, w, key, result, store_it, t) ==
    IF store_it
    THEN [store EXCEPT ![w.container] =
              LRUSetItem(@, key, setItemValue(result, w.cacheTimeMs,
                                              w.staleTimeMs, t))]
    ELSE store

\* withCache.ts:86-92 on the blocking path: the operation resolved
OperationResolve(c, store_it) ==
    /\ calls[c].pc = "operation"
    /\ store_it \in shouldStore(calls[c].w)
    /\ LET result == Result(calls[c].inv) IN
       /\ storage' = refreshedItemStore(storage, calls[c].w, calls[c].key,
                                        result, store_it, now)
       /\ calls' = [calls EXCEPT ![c].pc = "refreshed", ![c].result = result,
                                 ![c].stored = store_it]
    /\ UNCHANGED <<now, revalidationQueues, invocations, unhandledRejections,
                   wrappers, limits, fallback, decorated>>

\* withCache.ts:93, 129-130: refreshedItem returned, the call returns result
ReturnRefreshed(c) ==
    /\ calls[c].pc = "refreshed"
    /\ calls' = [calls EXCEPT ![c].pc = "done",
                              ![c].result = Absent,
                              ![c].ret = Value(calls[c].result)]
    /\ UNCHANGED <<now, storage, revalidationQueues, invocations,
                   unhandledRejections, wrappers, limits, fallback,
                   decorated>>

\* withCache.ts:100: the promise of the operation is the call's outcome
OperationResolveDirect(c) ==
    /\ calls[c].pc = "operationDirect"
    /\ calls' = [calls EXCEPT ![c].pc = "done",
                              ![c].ret = Value(Result(calls[c].inv))]
    /\ UNCHANGED <<now, storage, revalidationQueues, invocations,
                   unhandledRejections, wrappers, limits, fallback,
                   decorated>>

\* the blocking path, if it cached the outcome of a failed invocation
OperationRejectCached(c) ==
    /\ calls[c].pc \in {"operation", "operationDirect"}
    /\ storage' = [storage EXCEPT ![calls[c].container] =
           LRUSetItem(@, calls[c].key,
                      setItemValue(Result(calls[c].inv), calls[c].w.cacheTimeMs,
                                   calls[c].w.staleTimeMs, now))]
    /\ calls' = [calls EXCEPT ![c].pc = "done",
                              ![c].ret = Rejection(calls[c].inv)]
    /\ UNCHANGED <<now, revalidationQueues, invocations, unhandledRejections,
                   wrappers, limits, fallback, decorated>>

\* withCache.ts:86, 129 and 100: the operation rejected; nothing catches
OperationReject(c) ==
    /\ calls[c].pc \in {"operation", "operationDirect"}
    /\ calls' = [calls EXCEPT ![c].pc = "done",
                              ![c].ret = Rejection(calls[c].inv)]
    /\ UNCHANGED <<now, storage, revalidationQueues, invocations,
                   unhandledRejections, wrappers, limits, fallback,
                   decorated>>

\* The caller has its outcome and may call again.
Finish(c) ==
    /\ calls[c].pc = "done"
    /\ calls' = [calls EXCEPT ![c] = IdleCall]
    /\ UNCHANGED <<now, storage, revalidationQueues, invocations,
                   unhandledRejections, wrappers, limits, fallback,
                   decorated>>

\* ------------------------------------------------- the jobs of the queues
\* withCache.ts:86-92 in a job: the operation resolved
JobOperationResolve(qn, t, store_it) ==
    /\ revalidationQueues[qn] # Absent
    /\ t \in revalidationQueues[qn].runningTasks
    /\ t.pc = "operation"
    /\ store_it \in shouldStore(t.w)
    /\ LET result == Result(t.inv) IN
       /\ storage' = refreshedItemStore(storage, t.w, t.id, result, store_it, now)
       /\ revalidationQueues' = [revalidationQueues EXCEPT
              ![qn].runningTasks = (@ \ {t}) \cup
                  {[t EXCEPT !.pc = "refreshed", !.stored = store_it]}]
    /\ UNCHANGED <<now, calls, invocations, unhandledRejections, wrappers, limits, fallback,
                   decorated>>

\* What becomes of the promise add() returned when the job's function
\* rejects: withCache.ts:121-123 keeps no reference to it and attaches no
\* handler, so the rejection is unhandled.
addRejected(unhandled, t) == unhandled \cup {t.inv}

\* the job whose operation rejected, if the queue kept it among its running
\* tasks
JobOperationRejectStuck(qn, t) ==
    /\ revalidationQueues[qn] # Absent
    /\ t \in revalidationQueues[qn].runningTasks
    /\ t.pc = "operation"
    /\ revalidationQueues' = [revalidationQueues EXCEPT
           ![qn].runningTasks = (@ \ {t}) \cup {[t EXCEPT !.pc = "failed"]}]
    /\ unhandledRejections' = addRejected(unhandledRejections, t)
    /\ UNCHANGED <<now, storage, calls, invocations, wrappers, limits, fallback,
                   decorated>>

\* the job whose operation rejected, if the queue admitted it again to be
\* re-run
JobOperationRejectRetry(qn, t) ==
    /\ revalidationQueues[qn] # Absent
    /\ t \in revalidationQueues[qn].runningTasks
    /\ t.pc = "operation"
    /\ revalidationQueues' = [revalidationQueues EXCEPT
           ![qn].runningTasks = @ \ {t},
           ![qn].queue = Append(@, Job(t.id, t.w, t.parameters))]
    /\ unhandledRejections' = addRejected(unhandledRejections, t)
    /\ UNCHANGED <<now, storage, calls, invocations, wrappers, limits, fallback,
                   decorated>>

\* withCache.ts:86 in a job: the operation rejected, refreshedItem rejects,
\* the queue rejects the promise of add() and drops the job from runningTasks
JobOperationReject(qn, t) ==
    /\ revalidationQueues[qn] # Absent
    /\ t \in revalidationQueues[qn].runningTasks
    /\ t.pc = "operation"
    /\ revalidationQueues' = [revalidationQueues EXCEPT
           ![qn].runningTasks = @ \ {t}]
    /\ unhandledRejections' = addRejected(unhandledRejections, t)
    /\ UNCHANGED <<now, storage, calls, invocations, wrappers, limits, fallback,
                   decorated>>

\* withCache.ts:93 in a job: refreshedItem returned, the queue resolves the
\* promise of add() and drops the job from runningTasks
JobSettle(qn, t) ==
    /\ revalidationQueues[qn] # Absent
    /\ t \in revalidationQueues[qn].runningTasks
    /\ t.pc = "refreshed"
    /\ revalidationQueues' = [revalidationQueues EXCEPT
           ![qn].runningTasks = @ \ {t}]
    /\ UNCHANGED <<now, storage, calls, invocations, unhandledRejections, wrappers, limits, fallback,
                   decorated>>

\* The microtask of a settled job: its slot is given back and the next job
\* of the queue may start.
JobNext(qn) ==
    /\ revalidationQueues[qn] # Absent
    /\ revalidationQueues[qn].pending > Cardinality(revalidationQueues[qn].runningTasks)
    /\ LET qs == next([q |-> revalidationQueues[qn], n |-> invocations]) IN
       /\ revalidationQueues' = [revalidationQueues EXCEPT ![qn] = qs.q]
       /\ invocations' = qs.n
    /\ UNCHANGED <<now, storage, calls, unhandledRejections, wrappers, limits, fallback,
                   decorated>>

\* Time passes.
Tick ==
    /\ now < limits.time
    /\ now' = now + 1
    /\ UNCHANGED <<storage, calls, revalidationQueues, invocations,
                   unhandledRejections, wrappers, limits, fallback,
                   decorated>>

RunningTasks(qn) ==
    IF revalidationQueues[qn] = Absent THEN {}
    ELSE revalidationQueues[qn].runningTasks

Next ==
    \/ \E c \in Callers, w \in AllWrappers, p \in Params : CallWrapped(c, w, p)
    \/ \E c \in Callers : getItemResume(c)
    \/ \E c \in Callers : unsetKeyResume(c)
    \/ \E c \in Callers : ReturnOperation(c)
    \/ \E c \in Callers : ReturnFresh(c)
    \/ \E c \in Callers : ReturnStale(c)
    \/ \E c \in Callers : AwaitRefreshedItem(c)
    \/ \E c \in Callers, store_it \in BOOLEAN : OperationResolve(c, store_it)
    \/ \E c \in Callers : OperationResolveDirect(c)
    \/ \E c \in Callers : OperationReject(c)
    \/ \E c \in Callers : ReturnRefreshed(c)
    \/ \E c \in Callers : Finish(c)
    \/ \E qn \in QueueNames : \E t \in RunningTasks(qn), store_it \in BOOLEAN :
           JobOperationResolve(qn, t, store_it)
    \/ \E qn \in QueueNames : \E t \in RunningTasks(qn) : JobOperationReject(qn, t)
    \/ \E qn \in QueueNames : \E t \in RunningTasks(qn) : JobSettle(qn, t)
    \/ \E qn \in QueueNames : JobNext(qn)
    \/ Tick

Spec == Init /\ [][Next]_vars

\* One caller and a larger budget of invocations.
InitQueue ==
    /\ InitState
    /\ wrappers = WrappersSpec
    /\ limits = Limits(NumCallersQueue, MaxInvocationsQueue, MaxTime)

SpecQueue == InitQueue /\ [][Next]_vars

\* ------------------------------------------- direct use of a CacheContainer
Ttls == {Null} \cup 0..MaxTtl
StaleTtls == {Null} \cup 0..(MaxTtl + 1)
DirectKeys == {k \in AllKeys : k[2] = "default" /\ k[3] = 1}
DirectContents == {Result(1), Result(2)}

\* cacheContainer.ts:35-42: getItem runs to its await of storage.getItem
ContainerGetItem(c, container, key) ==
    /\ calls[c].pc = "idle"
    /\ c \in limits.callers
    /\ calls' = [calls EXCEPT ![c] =
           [IdleCall EXCEPT !.pc = "getItem", !.via = "container",
                            !.container = container, !.key = key,
                            !.item = LRUGetItem(storage[container], key)]]
    /\ UNCHANGED <<now, storage, revalidationQueues, invocations,
                   unhandledRejections, wrappers, limits, fallback,
                   decorated>>

\* cacheContainer.ts:75-104: setItem runs to its await of storage.setItem;
\* options omitted default to null (lines 80-84)
ContainerSetItem(container, key, content, ttl, staleTtl) ==
    /\ storage' = [storage EXCEPT ![container] =
           LRUSetItem(@, key, setItemValue(content, ttl, staleTtl, now))]
    /\ UNCHANGED <<now, calls, revalidationQueues, invocations,
                   unhandledRejections, wrappers, limits, fallback,
                   decorated>>

\* cacheContainer.ts:106-110
ContainerClear(container) ==
    /\ storage' = [storage EXCEPT ![container] = LRUClear(@)]
    /\ UNCHANGED <<now, calls, revalidationQueues, invocations,
                   unhandledRejections, wrappers, limits, fallback,
                   decorated>>

\* cacheContainer.ts:123-125
ContainerUnsetKey(container, key) ==
    /\ storage' = unsetKey(storage, container, key)
    /\ UNCHANGED <<now, calls, revalidationQueues, invocations,
                   unhandledRejections, wrappers, limits, fallback,
                   decorated>>

NextContainer ==
    \/ \E c \in Callers, s \in DirectContainers, k \in DirectKeys :
           ContainerGetItem(c, s, k)
    \/ \E c \in Callers : getItemResume(c)
    \/ \E c \in Callers : unsetKeyResume(c)
    \/ \E c \in Callers : Finish(c)
    \/ \E s \in DirectContainers, k \in DirectKeys, content \in DirectContents,
          ttl \in Ttls, staleTtl \in StaleTtls :
           ContainerSetItem(s, k, content, ttl, staleTtl)
    \/ \E s \in DirectContainers : ContainerClear(s)
    \/ \E s \in DirectContainers, k \in DirectKeys : ContainerUnsetKey(s, k)
    \/ Tick

InitContainer ==
    /\ InitState
    /\ wrappers = {}
    /\ limits = Limits(NumCallersQueue, 0, MaxTimeContainer)

SpecContainer == InitContainer /\ [][NextContainer]_vars

\* ================================================================== claims
\* The call of caller c took a step.
Changed(c) == calls'[c] # calls[c]

\* Caller c is in a wrapped call, caching enabled, that has its cached
\* response and has not yet acted on it.
Deciding(c) ==
    /\ calls[c].pc = "decide"
    /\ calls[c].via = "withCache"
    /\ ~cachingDisabled(calls[c].w)

\* The refresh jobs of key in queue q, waiting or running.
TasksIn(q, key) ==
    Cardinality({i \in 1..Len(q.queue) : q.queue[i].id = key})
    + Cardinality({t \in q.runningTasks : t.id = key})

C5_FreshReturnsCached ==
    [][\A c \in Callers :
        (Deciding(c) /\ calls[c].state = "fresh" /\ Changed(c)) =>
            /\ calls'[c].pc = "done"
            /\ calls'[c].ret = Value(calls[c].cachedResponse.content)
            /\ calls'[c].inv = 0
            /\ invocations' = invocations
            /\ revalidationQueues' = revalidationQueues
            /\ storage' = storage]_vars

\* A call has returned the content of a fresh entry.
C5_Witness ==
    \E c \in Callers :
        /\ calls[c].pc = "done"
        /\ calls[c].via = "withCache"
        /\ ~cachingDisabled(calls[c].w)
        /\ calls[c].state = "fresh"
        /\ calls[c].ret.kind = "value"
        /\ calls[c].inv = 0
        /\ invocations > 0

\* C6: on the miss path the call invokes the operation once and awaits it;
\* when shouldStore accepts the result the entry (result, ttl = cacheTimeMs,
\* staleTtl as setItem stores it, createdAt = now) is in the storage before
\* the call returns, and the call returns that result.
C6_MissWritesBeforeReturn ==
    [][\A c \in Callers :
        /\ (Deciding(c) /\ calls[c].cachedResponse = Absent /\ Changed(c)) =>
               /\ calls'[c].pc = "operation"
               /\ invocations' = invocations + 1
               /\ calls'[c].inv = invocations'
        /\ (calls[c].pc = "operation" /\ Changed(c)
                /\ calls'[c].ret.kind # "error") =>
               /\ calls'[c].pc = "refreshed"
               /\ invocations' = invocations
               /\ calls'[c].result = Result(calls[c].inv)
               /\ calls'[c].stored =>
                      storage'[calls[c].container][calls[c].key] =
                          setItemValue(Result(calls[c].inv),
                                       calls[c].w.cacheTimeMs,
                                       calls[c].w.staleTimeMs, now)
        /\ (calls[c].pc = "refreshed" /\ Changed(c)) =>
               /\ calls'[c].pc = "done"
               /\ calls'[c].ret = Value(Result(calls[c].inv))
        /\ (Changed(c) /\ calls'[c].pc = "done" /\ calls'[c].via = "withCache"
                /\ ~cachingDisabled(calls[c].w)
                /\ calls'[c].state \in {"none", "expired"}
                /\ calls'[c].ret.kind = "value") =>
               calls[c].pc = "refreshed"]_vars

\* A call that found no entry has returned the result it stored, and the
\* entry is in the storage.
C6_Witness ==
    \E c \in Callers :
        /\ calls[c].pc = "done"
        /\ calls[c].via = "withCache"
        /\ calls[c].state = "none"
        /\ calls[c].stored
        /\ calls[c].ret.kind = "value"
        /\ storage[calls[c].container][calls[c].key] # Absent
        /\ storage[calls[c].container][calls[c].key].content = calls[c].ret.content

\* What getItem has handed to its caller.
Returned(call) ==
    IF call.via = "withCache" THEN call.cachedResponse ELSE call.ret.content

\* C7: getItem never returns an entry classified expired: for such an entry
\* it removes the key and returns undefined in a later step; a fresh or
\* stale entry is returned, with its content and state, and is not removed.
C7_ExpiredNeverReturned ==
    /\ [](\A c \in Callers :
            /\ calls[c].cachedResponse # Absent =>
                   calls[c].cachedResponse.meta.state \in {"fresh", "stale"}
            /\ (calls[c].via = "container" /\ calls[c].pc = "done"
                    /\ calls[c].ret.content # Absent) =>
                   calls[c].ret.content.meta.state \in {"fresh", "stale"})
    /\ [][\A c \in Callers :
            /\ (calls[c].pc = "getItem" /\ calls[c].item # Absent /\ Changed(c)) =>
                   IF calls'[c].state = "expired"
                   THEN /\ calls'[c].pc = "unsetKey"
                        /\ storage'[calls[c].container][calls[c].key] = Absent
                   ELSE /\ calls'[c].pc \in {"decide", "done"}
                        /\ Returned(calls'[c]) =
                               getItemResult(calls[c].item, calls'[c].state)
                        /\ storage' = storage
            /\ (calls[c].pc = "unsetKey" /\ Changed(c)) =>
                   /\ calls'[c].pc \in {"decide", "done"}
                   /\ Returned(calls'[c]) = Absent]_vars

\* getItem has removed an expired entry and returned undefined.
C7_Witness ==
    \E c \in Callers :
        /\ calls[c].pc = "done"
        /\ calls[c].via = "container"
        /\ calls[c].state = "expired"
        /\ calls[c].ret = Value(Absent)
        /\ storage[calls[c].container][calls[c].key] = Absent

\* The classification the specification gives for one read time t.
ReferenceState(item, t) ==
    IF item.meta.ttl = Null \/ t <= item.meta.createdAt + item.meta.ttl
    THEN "fresh"
    ELSE IF item.meta.staleTtl # Null
            /\ t <= item.meta.createdAt + item.meta.staleTtl
         THEN "stale"
         ELSE "expired"

\* C8: for every stored entry and every read time now (the clock reads of
\* the call all giving now), getItem's classification is ReferenceState.
C8_ClassificationMatchesReference ==
    [][\A c \in Callers :
        (calls[c].pc = "getItem" /\ calls[c].item # Absent /\ Changed(c)
            /\ now' = now) =>
            calls'[c].state = ReferenceState(calls[c].item, now)]_vars

\* getItem has returned an entry read exactly at createdAt + ttl, as fresh.
C8_Witness ==
    \E c \in Callers :
        /\ calls[c].pc = "done"
        /\ calls[c].via = "container"
        /\ calls[c].state = "fresh"
        /\ calls[c].ret.content.meta.ttl = 1
        /\ calls[c].ret.content.meta.staleTtl = 2
        /\ calls[c].ret.content.meta.createdAt + 1 = now

\* C9: when the operation rejects on the blocking path the call ends with
\* that rejection and writes nothing; no stored entry ever holds the outcome
\* of a rejected invocation.
C9_BlockingFailurePropagates ==
    /\ [](\A c \in Callers :
            (calls[c].pc = "done" /\ calls[c].ret.kind = "error") =>
                \A s \in Containers, k \in AllKeys :
                    storage[s][k] # Absent =>
                        storage[s][k].content # calls[c].ret.content)
    /\ [][\A c \in Callers :
            (calls[c].pc = "operation" /\ Changed(c)
                /\ calls'[c].pc # "refreshed") =>
                /\ calls'[c].pc = "done"
                /\ calls'[c].ret = Rejection(calls[c].inv)
                /\ storage' = storage]_vars

\* A blocking call has ended with the operation's rejection and its key has
\* no entry.
C9_Witness ==
    \E c \in Callers :
        /\ calls[c].pc = "done"
        /\ calls[c].via = "withCache"
        /\ ~cachingDisabled(calls[c].w)
        /\ calls[c].ret.kind = "error"
        /\ storage[calls[c].container][calls[c].key] = Absent

SettledSlots(q) == q.pending - Cardinality(q.runningTasks)

Disabled(c) == calls[c].via = "withCache" /\ cachingDisabled(calls[c].w)

\* C12: a call with caching fully disabled performs no storage operation: it
\* never holds an item read from the storage, never waits for a removal, and
\* no step of it changes the storage.
C12_DisabledTouchesNoStorage ==
    /\ [](\A c \in Callers :
            Disabled(c) => calls[c].item = Absent /\ calls[c].pc # "unsetKey")
    /\ [][\A c \in Callers :
            (Disabled(c) /\ Changed(c)) => storage' = storage]_vars

\* C13: with cacheTimeMs = 0 and staleTimeMs = 0 every call, whatever its
\* read returned, invokes the operation once and ends with the outcome of
\* that invocation; no step of the call writes an entry.
C13_DisabledAlwaysInvokes ==
    /\ [](\A c \in Callers :
            (Disabled(c) /\ calls[c].pc = "done") =>
                /\ calls[c].inv # 0
                /\ calls[c].ret \in {Value(Result(calls[c].inv)),
                                     Rejection(calls[c].inv)})
    /\ [][\A c \in Callers :
            /\ (Disabled(c) /\ calls[c].pc = "decide" /\ Changed(c)) =>
                   /\ calls'[c].pc = "operationDirect"
                   /\ invocations' = invocations + 1
                   /\ calls'[c].inv = invocations'
            /\ (Disabled(c) /\ calls[c].pc = "operationDirect" /\ Changed(c)) =>
                   /\ calls'[c].pc = "done"
                   /\ calls'[c].inv = calls[c].inv
                   /\ invocations' = invocations
            /\ (Disabled(c) /\ Changed(c)) =>
                   \A s \in Containers, k \in AllKeys :
                       storage'[s][k] \in {storage[s][k], Absent}]_vars

\* A disabled call has returned the result of its own invocation while the
\* storage holds a fresh entry for its key.
C13_Witness ==
    \E c \in Callers :
        /\ Disabled(c)
        /\ calls[c].pc = "done"
        /\ calls[c].state = "fresh"
        /\ calls[c].ret = Value(Result(calls[c].inv))
        /\ storage[calls[c].container][calls[c].key] # Absent
        /\ storage[calls[c].container][calls[c].key].content # calls[c].ret.content

\* C14: when the operation's result arrives (in a blocking call or in a
\* refresh task) and shouldStore answers false, the storage is left as it
\* was, so a cold key stays without an entry and the next call invokes
\* again; when it answers true the entry of the key holds that result with
\* ttl = cacheTimeMs.
C14_ShouldStoreDecides ==
    /\ [][\A c \in Callers :
            (calls[c].pc = "operation" /\ calls'[c].pc = "refreshed") =>
                IF calls'[c].stored
                THEN LET e == storage'[calls[c].container][calls[c].key] IN
                     /\ e # Absent
                     /\ e.content = Result(calls[c].inv)
                     /\ e.meta.ttl = calls[c].w.cacheTimeMs
                ELSE storage' = storage]_vars
    /\ [][\A qn \in QueueNames : \A t \in RunningTasks(qn) :
            (t.pc = "operation"
                /\ \E u \in revalidationQueues'[qn].runningTasks :
                       u.inv = t.inv /\ u.pc = "refreshed" /\ ~u.stored) =>
                storage' = storage]_vars
    /\ [](\A c \in Callers :
            (calls[c].pc = "refreshed" /\ ~calls[c].stored) =>
                calls[c].w.shouldStore = "predicate")

\* A call on a cold key has returned a result that shouldStore refused: the
\* key still has no entry.
C14_Witness ==
    \E c \in Callers :
        /\ calls[c].pc = "done"
        /\ calls[c].via = "withCache"
        /\ calls[c].w.shouldStore = "predicate"
        /\ calls[c].state = "none"
        /\ ~calls[c].stored
        /\ calls[c].ret = Value(Result(calls[c].inv))
        /\ storage[calls[c].container][calls[c].key] = Absent

\* ------------------------------------------------ setItem awaited by a caller
\* cacheContainer.ts:75-103: setItem(key, content, {ttl, staleTtl}) called by
\* caller c runs to its await of storage.setItem (lruStorage.ts:21-23); the
\* call keeps its arguments while it waits.
ContainerSetItemCall(c, container, key, content, ttl, staleTtl) ==
    /\ calls[c].pc = "idle"
    /\ c \in limits.callers
    /\ storage' = [storage EXCEPT ![container] =
           LRUSetItem(@, key, setItemValue(content, ttl, staleTtl, now))]
    /\ calls' = [calls EXCEPT ![c] =
           [IdleCall EXCEPT !.pc = "setItem", !.via = "container",
                            !.container = container, !.key = key,
                            !.parameters = [content |-> content, ttl |-> ttl,
                                            staleTtl |-> staleTtl]]]
    /\ UNCHANGED <<now, revalidationQueues, invocations, unhandledRejections,
                   wrappers, limits, fallback, decorated>>

\* cacheContainer.ts:103-104: storage.setItem has completed, setItem returns
ContainerSetItemResume(c) ==
    /\ calls[c].pc = "setItem"
    /\ calls' = [calls EXCEPT ![c].pc = "done", ![c].parameters = Absent,
                              ![c].ret = Value(Absent)]
    /\ UNCHANGED <<now, storage, revalidationQueues, invocations,
                   unhandledRejections, wrappers, limits, fallback,
                   decorated>>

NextSetItem ==
    \/ \E c \in Callers, s \in DirectContainers, k \in DirectKeys,
          content \in DirectContents, ttl \in Ttls, staleTtl \in StaleTtls :
           ContainerSetItemCall(c, s, k, content, ttl, staleTtl)
    \/ \E c \in Callers : ContainerSetItemResume(c)
    \/ \E c \in Callers, s \in DirectContainers, k \in DirectKeys :
           ContainerGetItem(c, s, k)
    \/ \E c \in Callers : getItemResume(c)
    \/ \E c \in Callers : unsetKeyResume(c)
    \/ \E c \in Callers : Finish(c)
    \/ Tick

InitSetItem ==
    /\ InitState
    /\ wrappers = {}
    /\ limits = Limits(NumCallersQueue, 0, MaxTimeContainer)

SpecSetItem == InitSetItem /\ [][NextSetItem]_vars

\* The entry under the key of caller c's call.
Written(c) == storage[calls[c].container][calls[c].key]

\* Caller c's setItem runs in this step: its arguments and the entry it
\* hands to the storage.
SetItemStep(c) == calls[c].pc = "idle" /\ calls'[c].pc = "setItem"
SetItemOptions(c) == calls'[c].parameters
SetItemWritten(c) == storage'[calls'[c].container][calls'[c].key]

C16_StaleBoundaryAfterTtlAsClaimed ==
    [][\A c \in Callers :
        (/\ SetItemStep(c)
         /\ SetItemOptions(c).ttl # Null
         /\ SetItemOptions(c).staleTtl # Null
         /\ SetItemOptions(c).staleTtl < SetItemOptions(c).ttl) =>
            SetItemWritten(c).meta.createdAt + SetItemWritten(c).meta.ttl
                < SetItemWritten(c).meta.createdAt
                      + SetItemWritten(c).meta.staleTtl]_vars

\* C16, amended: for every setItem with non-null ttl and 0 < staleTtl < ttl
\* the stored stale boundary lies strictly after the ttl boundary; with
\* staleTtl = 0 the stored boundary is 0 and the entry has no stale window.
C16_StaleBoundaryAfterTtl ==
    [][\A c \in Callers :
        (/\ SetItemStep(c)
         /\ SetItemOptions(c).ttl # Null
         /\ SetItemOptions(c).staleTtl # Null
         /\ SetItemOptions(c).staleTtl < SetItemOptions(c).ttl) =>
            IF SetItemOptions(c).staleTtl > 0
            THEN SetItemWritten(c).meta.createdAt + SetItemWritten(c).meta.ttl
                     < SetItemWritten(c).meta.createdAt
                           + SetItemWritten(c).meta.staleTtl
            ELSE SetItemWritten(c).meta.staleTtl = 0]_vars

\* An entry written after time 0 with 0 < staleTtl < ttl has its stale
\* boundary after its ttl boundary.
C16_Witness ==
    \E c \in Callers :
        /\ calls[c].pc = "setItem"
        /\ calls[c].parameters.ttl # Null
        /\ 0 < calls[c].parameters.staleTtl
        /\ calls[c].parameters.staleTtl < calls[c].parameters.ttl
        /\ Written(c).meta.createdAt > 0
        /\ Written(c).meta.createdAt + Written(c).meta.ttl
               < Written(c).meta.createdAt + Written(c).meta.staleTtl

\* C17: for a wrapper with caching enabled, an entry read at one instant at
\* age a (now - createdAt) is classified fresh when a <= cacheTimeMs, stale
\* when cacheTimeMs < a <= cacheTimeMs + staleTimeMs, and expired beyond.
C17_StaleWindowFollowsExpiration ==
    [][\A c \in Callers :
        (/\ calls[c].pc = "getItem"
         /\ calls[c].via = "withCache"
         /\ ~cachingDisabled(calls[c].w)
         /\ calls[c].item # Absent
         /\ Changed(c)
         /\ now' = now) =>
            LET age == now - calls[c].item.meta.createdAt
                w == calls[c].w
            IN calls'[c].state =
                   IF age <= w.cacheTimeMs THEN "fresh"
                   ELSE IF age <= w.cacheTimeMs + w.staleTimeMs THEN "stale"
                   ELSE "expired"]_vars

\* C18: a read of an entry whose ttl is null classifies it fresh, whatever
\* its staleTtl and however far the clock has moved (also between the
\* clock reads of the call), returns it and leaves it in the storage.
C18_NullTtlNeverExpires ==
    [][\A c \in Callers :
        (/\ calls[c].pc = "getItem"
         /\ calls[c].item # Absent
         /\ calls[c].item.meta.ttl = Null
         /\ Changed(c)) =>
            /\ calls'[c].state = "fresh"
            /\ calls'[c].pc # "unsetKey"
            /\ Returned(calls'[c]) = getItemResult(calls[c].item, "fresh")
            /\ storage' = storage]_vars

\* An entry with null ttl and a staleTtl that has long passed was returned
\* as fresh and is still stored.
C18_Witness ==
    \E c \in Callers :
        /\ calls[c].pc = "done"
        /\ calls[c].via = "container"
        /\ calls[c].state = "fresh"
        /\ calls[c].ret.content # Absent
        /\ calls[c].ret.content.meta.ttl = Null
        /\ calls[c].ret.content.meta.staleTtl = 1
        /\ now > calls[c].ret.content.meta.createdAt + 2
        /\ storage[calls[c].container][calls[c].key] # Absent

\* ------------------------------------- a wrapper with a ttl and no stale window
\* The calls of WEager with one argument list: every call has the same key.
EagerParams == {p \in Params : p.value = 1}

NextEager ==
    \/ \E c \in Callers, p \in EagerParams : CallWrapped(c, WEager, p)
    \/ \E c \in Callers : getItemResume(c)
    \/ \E c \in Callers : unsetKeyResume(c)
    \/ \E c \in Callers : ReturnFresh(c)
    \/ \E c \in Callers : AwaitRefreshedItem(c)
    \/ \E c \in Callers, store_it \in BOOLEAN : OperationResolve(c, store_it)
    \/ \E c \in Callers : OperationReject(c)
    \/ \E c \in Callers : ReturnRefreshed(c)
    \/ \E c \in Callers : Finish(c)
    \/ Tick

InitEager ==
    /\ InitState
    /\ wrappers = {WEager}
    /\ limits = Limits(NumCallers, MaxInvocations, MaxTime)

SpecEager == InitEager /\ [][NextEager]_vars

\* What each call of the eager wrapper does with what its read found: an
\* entry read (last clock read now') within ttl of its createdAt is fresh and
\* is returned without an invocation; one read later is removed by that read,
\* and the call then invokes the operation once and returns that
\* invocation's outcome after the result (when it resolves) is stored.
EagerCallSteps ==
    [][\A c \in Callers :
        /\ (calls[c].pc = "getItem" /\ calls[c].item # Absent /\ Changed(c)) =>
               IF now' <= calls[c].item.meta.createdAt + calls[c].item.meta.ttl
               THEN /\ calls'[c].state = "fresh"
                    /\ calls'[c].pc = "decide"
                    /\ storage' = storage
               ELSE /\ calls'[c].state = "expired"
                    /\ calls'[c].pc = "unsetKey"
                    /\ storage'[calls[c].container][calls[c].key] = Absent
        /\ (calls[c].pc = "decide" /\ Changed(c)) =>
               IF calls[c].cachedResponse # Absent
               THEN /\ calls'[c].pc = "done"
                    /\ calls'[c].ret = Value(calls[c].cachedResponse.content)
                    /\ invocations' = invocations
               ELSE /\ calls'[c].pc = "operation"
                    /\ invocations' = invocations + 1
                    /\ calls'[c].inv = invocations'
        /\ (calls[c].pc = "operation" /\ Changed(c)) =>
               \/ /\ calls'[c].pc = "refreshed"
                  /\ storage'[calls[c].container][calls[c].key] =
                         setItemValue(Result(calls[c].inv),
                                      calls[c].w.cacheTimeMs,
                                      calls[c].w.staleTimeMs, now)
               \/ /\ calls'[c].pc = "done"
                  /\ calls'[c].ret = Rejection(calls[c].inv)
                  /\ storage' = storage
        /\ (calls[c].pc = "refreshed" /\ Changed(c)) =>
               /\ calls'[c].pc = "done"
               /\ calls'[c].ret = Value(Result(calls[c].inv))]_vars

\* C19, as claimed: while the clock is within ttl of the first call the
\* operation has been invoked at most once in total; and each call does
\* with its read what EagerCallSteps says.
C19_OnceWithinTtlAsClaimed ==
    /\ [](now <= WEager.cacheTimeMs => invocations <= 1)
    /\ EagerCallSteps

\* C19, amended: each call does with its read what EagerCallSteps says, and
\* an invocation beyond the first within ttl of the first call was made by a
\* call that found no entry: one overlapping another on a key not yet
\* written, or one following a rejected invocation.
C19_OncePerStoredEntry ==
    /\ EagerCallSteps
    /\ [][invocations' > invocations =>
            \E c \in Callers :
                /\ calls[c].pc = "decide"
                /\ calls[c].cachedResponse = Absent
                /\ calls'[c].inv = invocations']_vars
    /\ [](\A c \in Callers :
            (calls[c].pc = "done" /\ calls[c].state = "expired"
                /\ calls[c].ret.kind = "value") =>
                calls[c].inv # 0 /\ calls[c].ret = Value(Result(calls[c].inv)))

\* The first call after ttl found the entry removed by its own read, made
\* the second invocation and returned its result, now stored.
C19_Witness ==
    \E c \in Callers :
        /\ calls[c].pc = "done"
        /\ calls[c].state = "expired"
        /\ calls[c].inv = 2
        /\ calls[c].ret = Value(Result(2))
        /\ storage[calls[c].container][calls[c].key] # Absent
        /\ storage[calls[c].container][calls[c].key].content = Result(2)

\* ------------------------------------------ one operation under two prefixes
InitPrefix ==
    /\ InitState
    /\ wrappers = {WSwr1, WOther, WOff}
    /\ limits = Limits(NumCallersQueue, MaxInvocationsPrefix, MaxTime)

SpecPrefix == InitPrefix /\ [][Next]_vars

\* The (operation, prefix) pair a task's key was built from.
QueueOfKey(key) == <<key[1], key[2]>>

\* The jobs and tasks of queue q, waiting or running.
KeysIn(q) ==
    {q.queue[i].id : i \in 1..Len(q.queue)} \cup {t.id : t \in q.runningTasks}

Cold(c) == Deciding(c) /\ calls[c].state = "none"

\* C21: every call that found no entry invokes the operation itself, whatever
\* other calls of the same key are doing (no single-flight admission); a
\* call or job that stores leaves the key holding the whole entry of its own
\* invocation's result, whatever another call wrote before it; and an entry
\* only ever appears or changes by such a write, so that the entry present
\* once the calls have finished is the one written last.
C21_ColdCallsEachInvokeLastWriteWins ==
    [][/\ \A c \in Callers :
            /\ (Cold(c) /\ Changed(c)) =>
                   /\ calls'[c].pc = "operation"
                   /\ invocations' = invocations + 1
                   /\ calls'[c].inv = invocations'
            /\ (calls[c].pc = "operation" /\ calls'[c].pc = "refreshed"
                    /\ calls'[c].stored) =>
                   storage'[calls[c].container][calls[c].key] =
                       setItemValue(Result(calls[c].inv), calls[c].w.cacheTimeMs,
                                    calls[c].w.staleTimeMs, now)
       /\ \A s \in Containers, k \in AllKeys :
            (storage'[s][k] # storage[s][k] /\ storage'[s][k] # Absent) =>
                \/ \E c \in Callers :
                       /\ calls[c].pc = "operation"
                       /\ calls'[c].pc = "refreshed"
                       /\ calls[c].container = s
                       /\ calls[c].key = k
                       /\ storage'[s][k] =
                              setItemValue(Result(calls[c].inv),
                                           calls[c].w.cacheTimeMs,
                                           calls[c].w.staleTimeMs, now)
                \/ \E qn \in QueueNames : \E t \in RunningTasks(qn) :
                       /\ t.pc = "operation"
                       /\ t.w.container = s
                       /\ t.id = k
                       /\ storage'[s][k] =
                              setItemValue(Result(t.inv), t.w.cacheTimeMs,
                                           t.w.staleTimeMs, now)]_vars

\* Two calls of one key both found no entry, each made its own invocation
\* and each stored its result; the one invoked first resumed last, and the
\* entry is the result of that one.
C21_Witness ==
    \E c, d \in Callers :
        /\ c # d
        /\ calls[c].via = "withCache"
        /\ calls[d].via = "withCache"
        /\ calls[c].key = calls[d].key
        /\ calls[c].state = "none"
        /\ calls[d].state = "none"
        /\ calls[c].pc = "refreshed"
        /\ calls[d].pc = "refreshed"
        /\ calls[c].stored
        /\ calls[d].stored
        /\ calls[c].inv < calls[d].inv
        /\ storage[calls[c].container][calls[c].key] # Absent
        /\ storage[calls[c].container][calls[c].key].content = Result(calls[c].inv)

\* ------------------------------------ two functions of one name, one prefix
InitFunctions ==
    /\ InitState
    /\ wrappers = {WSwr1, WSameName, WOff}
    /\ limits = Limits(NumCallers, MaxInvocations, MaxTime)

SpecFunctions == InitFunctions /\ [][Next]_vars

\* C22: a call never returns the result of an invocation that a call through
\* a wrapper of a different function made: two wrappers of different
\* functions under one prefix share no entry.
C22_FunctionsNeverCollide ==
    \A c, d \in Callers :
        (/\ c # d
         /\ calls[c].via = "withCache"
         /\ calls[d].via = "withCache"
         /\ calls[c].w.prefix = calls[d].w.prefix
         /\ calls[c].inv # 0
         /\ calls[d].pc = "done"
         /\ calls[d].ret = Value(Result(calls[c].inv))) =>
            calls[d].w.operation = calls[c].w.operation

\* C23: a wrapped call reads the entry of its own prefix only, and finding
\* none there it invokes the operation, whatever another prefix holds for
\* the same parameters; and every change of an entry is made by a call or a
\* job of that entry's prefix.
C23_PrefixesShareNoEntry ==
    [][/\ \A c \in Callers :
            /\ (calls[c].pc = "idle" /\ calls'[c].via = "withCache") =>
                   /\ calls'[c].key = <<calls'[c].w.name, calls'[c].w.prefix,
                                        calculateKey(calls'[c].w,
                                                     calls'[c].parameters)>>
                   /\ calls'[c].item = storage[calls'[c].container][calls'[c].key]
            /\ (Cold(c) /\ Changed(c)) =>
                   /\ calls'[c].pc = "operation"
                   /\ invocations' = invocations + 1
       /\ \A s \in Containers, k \in AllKeys :
            storage'[s][k] # storage[s][k] =>
                \/ \E c \in Callers :
                       /\ Changed(c)
                       /\ calls[c].via = "withCache"
                       /\ calls[c].w.prefix = k[2]
                       /\ calls[c].key = k
                \/ \E qn \in QueueNames :
                       /\ qn[2] = k[2]
                       /\ revalidationQueues'[qn] # revalidationQueues[qn]
                       /\ \E t \in RunningTasks(qn) :
                              t.id = k /\ t.w.prefix = k[2]]_vars

\* A call through one prefix invokes the operation while the other prefix
\* holds an entry for the same parameters.
C23_Witness ==
    \E c \in Callers :
        /\ calls[c].via = "withCache"
        /\ calls[c].w = WOther
        /\ calls[c].state = "none"
        /\ calls[c].pc = "operation"
        /\ storage[calls[c].container][CacheKey(WSwr1, calls[c].parameters)] # Absent
        /\ storage[calls[c].container][calls[c].key] = Absent

\* ------------------------------------------ a wrapper with its own calculateKey
NextKeyed ==
    \/ \E c \in Callers, p \in ObjectParams : CallWrapped(c, WKeyed, p)
    \/ \E c \in Callers : getItemResume(c)
    \/ \E c \in Callers : unsetKeyResume(c)
    \/ \E c \in Callers : ReturnFresh(c)
    \/ \E c \in Callers : AwaitRefreshedItem(c)
    \/ \E c \in Callers, store_it \in BOOLEAN : OperationResolve(c, store_it)
    \/ \E c \in Callers : OperationReject(c)
    \/ \E c \in Callers : ReturnRefreshed(c)
    \/ \E c \in Callers : Finish(c)
    \/ Tick

InitKeyed ==
    /\ InitState
    /\ wrappers = {WKeyed}
    /\ limits = Limits(NumCallers, MaxInvocations, MaxTime)

SpecKeyed == InitKeyed /\ [][NextKeyed]_vars

\* C24: the key of a call is its operation's name, its prefix and what the
\* key function makes of its parameters, nothing else of the parameters: two
\* calls equal in these three have the same key and read the same entry; and
\* a call whose read finds the entry within ttl returns the stored content
\* without an invocation, whichever parameters the call that stored it had.
C24_EqualKeyFunctionResultSameEntry ==
    /\ [](\A c, d \in Callers :
            (/\ calls[c].via = "withCache"
             /\ calls[d].via = "withCache"
             /\ calls[c].w.name = calls[d].w.name
             /\ calls[c].w.prefix = calls[d].w.prefix
             /\ calculateKey(calls[c].w, calls[c].parameters)
                    = calculateKey(calls[d].w, calls[d].parameters)) =>
                calls[c].key = calls[d].key)
    /\ [][\A c \in Callers :
            /\ (calls[c].pc = "idle" /\ calls'[c].via = "withCache") =>
                   calls'[c].item = storage[calls'[c].container][calls'[c].key]
            /\ (calls[c].pc = "getItem" /\ calls[c].item # Absent /\ Changed(c)
                    /\ now' <= calls[c].item.meta.createdAt + calls[c].w.cacheTimeMs) =>
                   /\ calls'[c].pc = "decide"
                   /\ calls'[c].cachedResponse # Absent
                   /\ calls'[c].cachedResponse.content = calls[c].item.content
                   /\ calls'[c].cachedResponse.meta.state = "fresh"
            /\ (calls[c].pc = "decide" /\ calls[c].cachedResponse # Absent
                    /\ Changed(c)) =>
                   /\ calls'[c].pc = "done"
                   /\ calls'[c].ret = Value(calls[c].cachedResponse.content)
                   /\ calls'[c].inv = 0
                   /\ invocations' = invocations
                   /\ storage' = storage]_vars

\* A call with one object has stored its result and returned; a call with
\* another object of the same id has returned that result without an
\* invocation.
C24_Witness ==
    \E c, d \in Callers :
        /\ calls[c].via = "withCache"
        /\ calls[d].via = "withCache"
        /\ calls[c].parameters # calls[d].parameters
        /\ calls[c].pc = "done"
        /\ calls[c].stored
        /\ calls[c].inv # 0
        /\ calls[c].ret = Value(Result(calls[c].inv))
        /\ calls[d].pc = "done"
        /\ calls[d].state = "fresh"
        /\ calls[d].inv = 0
        /\ calls[d].ret = Value(Result(calls[c].inv))
        /\ invocations = 1

\* --------------------------------- a container on a storage whose calls may fail
\* cacheContainer.ts:106-107: clear() called by caller c runs to its await of
\* storage.clear (lruStorage.ts:12-14)
ContainerClearCall(c, container) ==
    /\ calls[c].pc = "idle"
    /\ c \in limits.callers
    /\ storage' = [storage EXCEPT ![container] = LRUClear(@)]
    /\ calls' = [calls EXCEPT ![c] =
           [IdleCall EXCEPT !.pc = "clear", !.via = "container",
                            !.container = container]]
    /\ UNCHANGED <<now, revalidationQueues, invocations, unhandledRejections,
                   wrappers, limits, fallback, decorated>>

\* cacheContainer.ts:107-110: storage.clear has completed, clear returns
ContainerClearResume(c) ==
    /\ calls[c].pc = "clear"
    /\ calls' = [calls EXCEPT ![c].pc = "done", ![c].ret = Value(Absent)]
    /\ UNCHANGED <<now, storage, revalidationQueues, invocations,
                   unhandledRejections, wrappers, limits, fallback,
                   decorated>>

\* cacheContainer.ts:123-124: unsetKey(key) called by caller c runs to its
\* await of storage.removeItem
ContainerUnsetKeyCall(c, container, key) ==
    /\ calls[c].pc = "idle"
    /\ c \in limits.callers
    /\ storage' = unsetKey(storage, container, key)
    /\ calls' = [calls EXCEPT ![c] =
           [IdleCall EXCEPT !.pc = "unsetKey", !.via = "container",
                            !.container = container, !.key = key]]
    /\ UNCHANGED <<now, revalidationQueues, invocations, unhandledRejections,
                   wrappers, limits, fallback, decorated>>

\* The Storage call a container operation is waiting for at each of its
\* awaits: cacheContainer.ts:42, 124, 103, 107.
StorageCall(pc) ==
    CASE pc = "getItem" -> "getItem"
      [] pc = "unsetKey" -> "removeItem"
      [] pc = "setItem" -> "setItem"
      [] pc = "clear" -> "clear"

AwaitingStorage(c) ==
    /\ calls[c].via = "container"
    /\ calls[c].pc \in {"getItem", "unsetKey", "setItem", "clear"}

\* The error a Storage call rejects with.
StorageError(call) == [kind |-> "error", content |-> [storage |-> call]]
StorageErrors == {StorageError(call) : call \in {"getItem", "removeItem", "setItem", "clear"}}

\* The Storage call caller c is waiting for has rejected.
Failed(c) == calls[c].item \in StorageErrors

\* The promise of the Storage call that caller c awaits rejects (whatever the
\* call had done to the stored entries before it failed stands).
StorageFail(c) ==
    /\ AwaitingStorage(c)
    /\ ~Failed(c)
    /\ calls' = [calls EXCEPT ![c].item = StorageError(StorageCall(calls[c].pc))]
    /\ UNCHANGED <<now, storage, revalidationQueues, invocations,
                   unhandledRejections, wrappers, limits, fallback,
                   decorated>>

\* the container operation, if it issued the failed Storage call again
StorageRejectedRetry(c) ==
    /\ Failed(c)
    /\ calls' = [calls EXCEPT ![c].item =
           IF calls[c].pc = "getItem"
           THEN LRUGetItem(storage[calls[c].container], calls[c].key)
           ELSE Absent]
    /\ UNCHANGED <<now, storage, revalidationQueues, invocations,
                   unhandledRejections, wrappers, limits, fallback,
                   decorated>>

\* cacheContainer.ts:42, 68 and 124, 103, 107: the await throws what the
\* Storage call rejected with; no try encloses it, so the container
\* operation (and getItem around its unsetKey) rejects with the same error.
StorageRejected(c) ==
    /\ Failed(c)
    /\ calls' = [calls EXCEPT ![c].pc = "done", ![c].item = Absent,
                              ![c].parameters = Absent,
                              ![c].ret = calls[c].item]
    /\ UNCHANGED <<now, storage, revalidationQueues, invocations,
                   unhandledRejections, wrappers, limits, fallback,
                   decorated>>

NextFailing ==
    \/ \E c \in Callers, s \in DirectContainers, k \in DirectKeys,
          content \in DirectContents, ttl \in Ttls, staleTtl \in StaleTtls :
           ContainerSetItemCall(c, s, k, content, ttl, staleTtl)
    \/ \E c \in Callers, s \in DirectContainers, k \in DirectKeys :
           ContainerGetItem(c, s, k)
    \/ \E c \in Callers, s \in DirectContainers : ContainerClearCall(c, s)
    \/ \E c \in Callers, s \in DirectContainers, k \in DirectKeys :
           ContainerUnsetKeyCall(c, s, k)
    \/ \E c \in Callers : ~Failed(c) /\ ContainerSetItemResume(c)
    \/ \E c \in Callers : ~Failed(c) /\ getItemResume(c)
    \/ \E c \in Callers : ~Failed(c) /\ unsetKeyResume(c)
    \/ \E c \in Callers : ~Failed(c) /\ ContainerClearResume(c)
    \/ \E c \in Callers : StorageFail(c)
    \/ \E c \in Callers : StorageRejected(c)
    \/ \E c \in Callers : Finish(c)
    \/ Tick

InitFailing ==
    /\ InitState
    /\ wrappers = {}
    /\ limits = Limits(NumCallersQueue, 0, MaxTimeContainer)

SpecFailing == InitFailing /\ [][NextFailing]_vars

\* C25: when the Storage call a container operation awaits has rejected, the
\* operation's next step ends it with that error as its outcome, and in
\* that step it touches no entry and issues no Storage call: the failed
\* call is not made again.
C25_StorageFailurePropagates ==
    [][\A c \in Callers :
        /\ (AwaitingStorage(c) /\ Failed(c) /\ Changed(c)) =>
               /\ calls'[c].pc = "done"
               /\ calls'[c].ret = StorageError(StorageCall(calls[c].pc))
               /\ storage' = storage
        /\ (calls[c].via = "container" /\ calls[c].pc = "done"
                /\ calls[c].ret.kind = "error" /\ Changed(c)) =>
               /\ calls'[c] = IdleCall
               /\ storage' = storage]_vars

\* A getItem found its entry expired, the removeItem it issued failed, and
\* getItem has failed with that error.
C25_Witness ==
    \E c \in Callers :
        /\ calls[c].via = "container"
        /\ calls[c].pc = "done"
        /\ calls[c].state = "expired"
        /\ calls[c].ret = StorageError("removeItem")

\* C26: setItem leaves under the key an entry with the content given, the
\* ttl given and the time of the write; a getItem reads the entry its key
\* holds then, the one last written; and a read that ends within the entry's
\* ttl (or of an entry without ttl) returns the entry's content with state
\* fresh and leaves the entry in place.
C26_RoundTrip ==
    [][\A c \in Callers :
        /\ SetItemStep(c) =>
               /\ SetItemWritten(c).content = SetItemOptions(c).content
               /\ SetItemWritten(c).meta.createdAt = now
               /\ SetItemWritten(c).meta.ttl = SetItemOptions(c).ttl
        /\ (calls[c].pc = "idle" /\ calls'[c].pc = "getItem") =>
               /\ calls'[c].item = storage[calls'[c].container][calls'[c].key]
               /\ storage' = storage
        /\ (calls[c].pc = "getItem" /\ calls[c].via = "container"
                /\ calls[c].item # Absent /\ Changed(c)
                /\ (calls[c].item.meta.ttl = Null
                    \/ now' <= calls[c].item.meta.createdAt + calls[c].item.meta.ttl)) =>
               /\ calls'[c].pc = "done"
               /\ calls'[c].ret.kind = "value"
               /\ calls'[c].ret.content # Absent
               /\ calls'[c].ret.content.content = calls[c].item.content
               /\ calls'[c].ret.content.meta.state = "fresh"
               /\ storage' = storage]_vars

\* A setItem with ttl 0 and, with the clock where it was, a getItem of the
\* key that returned the content written, fresh.
C26_Witness ==
    \E c \in Callers :
        /\ calls[c].via = "container"
        /\ calls[c].pc = "done"
        /\ calls[c].ret.kind = "value"
        /\ calls[c].ret.content # Absent
        /\ calls[c].ret.content.meta.state = "fresh"
        /\ calls[c].ret.content.meta.ttl = 0
        /\ calls[c].ret.content.meta.createdAt = now
        /\ now > 0
        /\ storage[calls[c].container][calls[c].key] # Absent
        /\ storage[calls[c].container][calls[c].key].content
               = calls[c].ret.content.content

\* ------------------------------------- clear() beside the calls of a wrapper
NextClear ==
    \/ \E c \in Callers, p \in EagerParams : CallWrapped(c, WEager, p)
    \/ \E c \in Callers, s \in DirectContainers, k \in DirectKeys :
           ContainerGetItem(c, s, k)
    \/ \E c \in Callers, s \in DirectContainers : ContainerClearCall(c, s)
    \/ \E c \in Callers : ContainerClearResume(c)
    \/ \E c \in Callers : getItemResume(c)
    \/ \E c \in Callers : unsetKeyResume(c)
    \/ \E c \in Callers : ReturnFresh(c)
    \/ \E c \in Callers : AwaitRefreshedItem(c)
    \/ \E c \in Callers, store_it \in BOOLEAN : OperationResolve(c, store_it)
    \/ \E c \in Callers : OperationReject(c)
    \/ \E c \in Callers : ReturnRefreshed(c)
    \/ \E c \in Callers : Finish(c)
    \/ Tick

InitClear ==
    /\ InitState
    /\ wrappers = {WEager}
    /\ limits = Limits(NumCallers, MaxInvocations, MaxTime)

SpecClear == InitClear /\ [][NextClear]_vars

\* C27: a clear() leaves its container without any entry, whatever it held
\* before (nothing included), and returns without an error; a getItem that
\* reads a key without entry returns absent; and a wrapped call that reads
\* a key without entry invokes the operation.
C27_ClearIdempotent ==
    [][\A c \in Callers :
        /\ (calls[c].pc = "idle" /\ calls'[c].pc = "clear") =>
               \A k \in AllKeys : storage'[calls'[c].container][k] = Absent
        /\ (calls[c].pc = "clear" /\ Changed(c)) =>
               /\ calls'[c].pc = "done"
               /\ calls'[c].ret = Value(Absent)
               /\ storage' = storage
        /\ (calls[c].pc = "idle" /\ calls'[c].pc = "getItem") =>
               calls'[c].item = storage[calls'[c].container][calls'[c].key]
        /\ (calls[c].pc = "getItem" /\ calls[c].item = Absent /\ Changed(c)) =>
               IF calls[c].via = "container"
               THEN calls'[c].pc = "done" /\ calls'[c].ret = Value(Absent)
               ELSE calls'[c].pc = "decide" /\ calls'[c].cachedResponse = Absent
        /\ (calls[c].pc = "decide" /\ calls[c].cachedResponse = Absent
                /\ Changed(c)) =>
               /\ calls'[c].pc \in {"operation", "operationDirect"}
               /\ invocations' = invocations + 1
               /\ calls'[c].inv = invocations']_vars

\* One call stored its result at time 0 and has returned; with the clock
\* still at 0 the other caller's wrapped call of the same key found no
\* entry (the storage was cleared in between) and invoked the operation
\* again.
C27_Witness ==
    \E c, d \in Callers :
        /\ calls[c].via = "withCache"
        /\ calls[c].pc = "done"
        /\ calls[c].stored
        /\ calls[c].inv = 1
        /\ calls[d].via = "withCache"
        /\ calls[d].key = calls[c].key
        /\ calls[d].state = "none"
        /\ calls[d].pc = "operation"
        /\ calls[d].inv = 2
        /\ now = 0
        /\ \A k \in AllKeys : storage[calls[d].container][k] = Absent

\* ========================================================= FallbackStorage
\* fallbackStorage.ts.  this.storages is a list of Storage ports in priority
\* order, the first the primary.  A Storage call is issued, and some time
\* later the storage performs it and its promise settles (PgStorage,
\* packages/storage-pg/src/index.ts:20-40, awaits a query; LRUStorage acts at
\* once); the function awaiting it resumes in the step in which it settles.
\* A call that is not awaited stays in flight after its issuer has returned.
Storages == 1..NumStorages
FallbackKeys == {"key1"}

\* The items written: CachedItems of two contents.
FallbackItems ==
    {setItemValue(Result(1), Null, Null, 0), setItemValue(Result(2), Null, Null, 0)}

\* A call of storage.setItem(key, item) in flight: call is the number of the
\* FallbackStorage call that issued it, by its caller, awaited whether the
\* issuer waits for it (line 29) or not (line 44).
Write(call, by, storage_, key, item, awaited) ==
    [call |-> call, by |-> by, storage |-> storage_, key |-> key,
     item |-> item, awaited |-> awaited]

IdleFallbackCall ==
    [op |-> "none", pc |-> "idle", call |-> 0, key |-> "", content |-> Absent,
     i |-> 0, item |-> Absent, queried |-> {}, written |-> {},
     ret |-> NoReturn]

\* Storages as the constructor may receive them (line 14-16): empty, or
\* holding an item some of them have kept from an earlier run.
InitialStorages ==
    {[i \in Storages |->
        [k \in FallbackKeys |->
            IF i \in holders THEN setItemValue(Result(1), Null, Null, 0)
            ELSE Absent]] : holders \in SUBSET Storages}

InitFallback ==
    /\ now = 0
    /\ storage = [s \in Containers |-> [k \in AllKeys |-> Absent]]
    /\ calls = [c \in Callers |-> IdleCall]
    /\ revalidationQueues = [qn \in QueueNames |-> Absent]
    /\ invocations = 0
    /\ unhandledRejections = {}
    /\ wrappers = {}
    /\ limits = Limits(NumCallers, MaxFallbackCalls, 0)
    /\ decorated = Absent
    /\ \E initial \in InitialStorages :
           fallback = [storages |-> initial,
                       calls |-> [c \in Callers |-> IdleFallbackCall],
                       writes |-> {},
                       issued |-> 0]

\* fallbackStorage.ts:41-43: setItem runs to its await of
\* primaryStorage.setItem
FallbackSetItem(c, key, content) ==
    /\ fallback.calls[c].pc = "idle"
    /\ c \in limits.callers
    /\ fallback.issued < limits.invocations
    /\ fallback' = [fallback EXCEPT
           !.issued = @ + 1,
           !.calls[c] = [IdleFallbackCall EXCEPT
               !.op = "setItem", !.pc = "setPrimary", !.call = fallback.issued + 1,
               !.key = key, !.content = content]]
    /\ UNCHANGED <<now, storage, calls, revalidationQueues, invocations,
                   unhandledRejections, wrappers, limits, decorated>>

\* The writes the non-primary storages are sent by setItem (lines 44-46)
BackgroundWrites(call) ==
    {Write(call.call, 0, i, call.key, call.content, FALSE) : i \in Storages \ {1}}

\* setItem, if it awaited the writes of the other storages as well
FallbackSetItemResumeAwaiting(c) ==
    /\ fallback.calls[c].pc = "setPrimary"
    /\ LET call == fallback.calls[c] IN
       fallback' = [fallback EXCEPT
           !.storages[1][call.key] = call.content,
           !.writes = @ \cup {[w EXCEPT !.awaited = TRUE, !.by = c] :
                                  w \in BackgroundWrites(call)},
           !.calls[c].pc = "writeBack"]
    /\ UNCHANGED <<now, storage, calls, revalidationQueues, invocations,
                   unhandledRejections, wrappers, limits, decorated>>

\* fallbackStorage.ts:43-47: the primary storage has written, setItem issues
\* the writes of the other storages without awaiting them and returns
FallbackSetItemResume(c) ==
    /\ fallback.calls[c].pc = "setPrimary"
    /\ LET call == fallback.calls[c] IN
       fallback' = [fallback EXCEPT
           !.storages[1][call.key] = call.content,
           !.writes = @ \cup BackgroundWrites(call),
           !.calls[c].pc = "done",
           !.calls[c].ret = Value(Absent)]
    /\ UNCHANGED <<now, storage, calls, revalidationQueues, invocations,
                   unhandledRejections, wrappers, limits, decorated>>

\* fallbackStorage.ts:43: the primary storage's setItem rejected; the await
\* throws and setItem rejects before line 44
FallbackSetItemReject(c) ==
    /\ fallback.calls[c].pc = "setPrimary"
    /\ fallback' = [fallback EXCEPT
           !.calls[c].pc = "done",
           !.calls[c].ret = StorageError("setItem")]
    /\ UNCHANGED <<now, storage, calls, revalidationQueues, invocations,
                   unhandledRejections, wrappers, limits, decorated>>

\* fallbackStorage.ts:22-25: getItem runs to its await of
\* storages[0].getItem
FallbackGetItem(c, key) ==
    /\ fallback.calls[c].pc = "idle"
    /\ c \in limits.callers
    /\ fallback.issued < limits.invocations
    /\ fallback' = [fallback EXCEPT
           !.issued = @ + 1,
           !.calls[c] = [IdleFallbackCall EXCEPT
               !.op = "getItem", !.pc = "getItem", !.call = fallback.issued + 1,
               !.key = key, !.i = 1, !.queried = {1}]]
    /\ UNCHANGED <<now, storage, calls, revalidationQueues, invocations,
                   unhandledRejections, wrappers, limits, decorated>>

\* The storages a hit in storage i is written back to (lines 30-32)
WriteBackTargetsAll(i) == Storages \ {i}

WriteBackTargets(i) == 1..(i - 1)

\* fallbackStorage.ts:25-38: storage i has answered.  A hit in the primary
\* is returned; a hit further down is first written to the storages above
\* it, all awaited together (line 29); after a miss the next storage is
\* asked, and after the last one getItem returns undefined.
FallbackGetItemResume(c) ==
    /\ fallback.calls[c].pc = "getItem"
    /\ LET call == fallback.calls[c]
           item == fallback.storages[call.i][call.key]
       IN fallback' =
           IF item # Absent
           THEN IF call.i # 1
                THEN [fallback EXCEPT
                         !.writes = @ \cup
                             {Write(call.call, c, j, call.key, item, TRUE) :
                                  j \in WriteBackTargets(call.i)},
                         !.calls[c].pc = "writeBack",
                         !.calls[c].item = item]
                ELSE [fallback EXCEPT
                         !.calls[c].pc = "done",
                         !.calls[c].item = item,
                         !.calls[c].ret = Value(item)]
           ELSE IF call.i < NumStorages
                THEN [fallback EXCEPT
                         !.calls[c].i = @ + 1,
                         !.calls[c].queried = @ \cup {call.i + 1}]
                ELSE [fallback EXCEPT
                         !.calls[c].pc = "done",
                         !.calls[c].ret = Value(Absent)]
    /\ UNCHANGED <<now, storage, calls, revalidationQueues, invocations,
                   unhandledRejections, wrappers, limits, decorated>>

\* The writes in flight that caller c's call is waiting for.
AwaitedWrites(c) ==
    {w \in fallback.writes :
        w.awaited /\ w.by = c /\ w.call = fallback.calls[c].call}

\* fallbackStorage.ts:29-35: every write of the Promise.all has settled,
\* getItem returns the item
FallbackWriteBackResume(c) ==
    /\ fallback.calls[c].pc = "writeBack"
    /\ AwaitedWrites(c) = {}
    /\ fallback' = [fallback EXCEPT
           !.calls[c].pc = "done",
           !.calls[c].ret = Value(fallback.calls[c].item)]
    /\ UNCHANGED <<now, storage, calls, revalidationQueues, invocations,
                   unhandledRejections, wrappers, limits, decorated>>

\* Is the issuer of write w still waiting for it?
Waiting(w) ==
    /\ w.awaited
    /\ fallback.calls[w.by].call = w.call
    /\ fallback.calls[w.by].pc = "writeBack"

\* A storage performs a setItem in flight and its promise resolves.
WriteSettle(w) ==
    /\ w \in fallback.writes
    /\ fallback' = [fallback EXCEPT
           !.storages[w.storage][w.key] = w.item,
           !.writes = @ \ {w},
           !.calls = IF Waiting(w)
                     THEN [@ EXCEPT ![w.by].written = @ \cup {w.storage}]
                     ELSE @]
    /\ UNCHANGED <<now, storage, calls, revalidationQueues, invocations,
                   unhandledRejections, wrappers, limits, decorated>>

\* A storage's setItem in flight rejects, its entry as it was.  Awaited
\* (line 29), the first rejection makes Promise.all, and with it getItem,
\* reject; not awaited (line 44), the rejection of Promise.all has no
\* handler.
WriteReject(w) ==
    /\ w \in fallback.writes
    /\ fallback' = [fallback EXCEPT
           !.writes = @ \ {w},
           !.calls = IF Waiting(w)
                     THEN [@ EXCEPT ![w.by].pc = "done",
                                    ![w.by].ret = StorageError("setItem")]
                     ELSE @]
    /\ unhandledRejections' =
           IF w.awaited THEN unhandledRejections
           ELSE unhandledRejections \cup {w.call}
    /\ UNCHANGED <<now, storage, calls, revalidationQueues, invocations,
                   wrappers, limits, decorated>>

\* The caller has its outcome and may call again.
FallbackFinish(c) ==
    /\ fallback.calls[c].pc = "done"
    /\ fallback' = [fallback EXCEPT !.calls[c] = IdleFallbackCall]
    /\ UNCHANGED <<now, storage, calls, revalidationQueues, invocations,
                   unhandledRejections, wrappers, limits, decorated>>

NextFallback ==
    \/ \E c \in Callers, k \in FallbackKeys, content \in FallbackItems :
           FallbackSetItem(c, k, content)
    \/ \E c \in Callers : FallbackSetItemResume(c)
    \/ \E c \in Callers : FallbackSetItemReject(c)
    \/ \E c \in Callers, k \in FallbackKeys : FallbackGetItem(c, k)
    \/ \E c \in Callers : FallbackGetItemResume(c)
    \/ \E c \in Callers : FallbackWriteBackResume(c)
    \/ \E w \in fallback.writes : WriteSettle(w)
    \/ \E w \in fallback.writes : WriteReject(w)
    \/ \E c \in Callers : FallbackFinish(c)

SpecFallback == InitFallback /\ [][NextFallback]_vars

\* No call of the FallbackStorage is under way and no write is in flight.
FallbackSettled ==
    /\ fallback.writes = {}
    /\ \A c \in Callers : fallback.calls[c].pc \in {"idle", "done"}

\* C28: once every write has settled, the storages that hold a key all hold
\* the same item for it.
C28_LayersConsistent ==
    FallbackSettled =>
        \A k \in FallbackKeys : \A i, j \in Storages :
            (fallback.storages[i][k] # Absent /\ fallback.storages[j][k] # Absent) =>
                fallback.storages[i][k] = fallback.storages[j][k]

\* The call of caller c changed in this step.
FallbackChanged(c) == fallback'.calls[c] # fallback.calls[c]

\* C29: the step in which the primary storage's write settles ends setItem:
\* with the primary's error if the write failed, else with the primary
\* holding the item and exactly one write of that item to each other
\* storage newly in flight, none of them awaited; and the settling of a
\* write that is not awaited, done or failed, changes no call and issues no
\* write.
C29_SetItemGuaranteesPrimaryOnly ==
    [][/\ \A c \in Callers :
            (fallback.calls[c].pc = "setPrimary" /\ FallbackChanged(c)) =>
                /\ fallback'.calls[c].pc = "done"
                /\ fallback'.calls[c].ret.kind = "value" =>
                       LET call == fallback.calls[c]
                           issued == fallback'.writes \ fallback.writes
                       IN /\ fallback'.storages[1][call.key] = call.content
                          /\ \A w \in issued :
                                 /\ w.call = call.call
                                 /\ w.storage # 1
                                 /\ w.key = call.key
                                 /\ w.item = call.content
                                 /\ ~w.awaited
                          /\ \A i \in Storages \ {1} :
                                 Cardinality({w \in issued : w.storage = i}) = 1
                /\ fallback'.calls[c].ret.kind # "value" =>
                       /\ fallback'.writes = fallback.writes
                       /\ fallback'.storages = fallback.storages
       /\ \A w \in fallback.writes :
            (~w.awaited /\ w \notin fallback'.writes) =>
                /\ fallback'.calls = fallback.calls
                /\ fallback'.writes = fallback.writes \ {w}
                /\ \A i \in Storages \ {w.storage} :
                       fallback'.storages[i] = fallback.storages[i]]_vars

\* A setItem has returned with the primary holding its item; one of its
\* writes to the other storages has failed and the other is still in
\* flight.
C29_Witness ==
    \E c \in Callers :
        /\ fallback.calls[c].op = "setItem"
        /\ fallback.calls[c].pc = "done"
        /\ fallback.calls[c].ret = Value(Absent)
        /\ fallback.storages[1][fallback.calls[c].key] = fallback.calls[c].content
        /\ fallback.calls[c].call \in unhandledRejections
        /\ \E w \in fallback.writes :
               w.call = fallback.calls[c].call /\ ~w.awaited

\* C30: getItem asks the storages in priority order, one at a time, and goes
\* on only after a miss; at a hit in storage i it asks no further storage,
\* sends the item found to exactly the storages above i (none for the
\* primary), awaits those writes and returns the item once all are done;
\* when every storage has missed it returns absent, having written nothing.
C30_GetItemWritesBackAbove ==
    /\ [][\A c \in Callers :
            (fallback.calls[c].pc = "getItem" /\ FallbackChanged(c)) =>
                LET call == fallback.calls[c]
                    after == fallback'.calls[c]
                    item == fallback.storages[call.i][call.key]
                    issued == fallback'.writes \ fallback.writes
                IN /\ fallback'.storages = fallback.storages
                   /\ IF item # Absent
                      THEN /\ after.item = item
                           /\ after.i = call.i
                           /\ after.queried = call.queried
                           /\ {w.storage : w \in issued} = 1..(call.i - 1)
                           /\ \A w \in issued :
                                  /\ w.item = item
                                  /\ w.key = call.key
                                  /\ w.awaited
                           /\ IF call.i = 1
                              THEN after.pc = "done" /\ after.ret = Value(item)
                              ELSE after.pc = "writeBack"
                      ELSE /\ issued = {}
                           /\ IF call.i < NumStorages
                              THEN /\ after.pc = "getItem"
                                   /\ after.i = call.i + 1
                                   /\ after.queried = call.queried \cup {call.i + 1}
                              ELSE /\ after.pc = "done"
                                   /\ after.ret = Value(Absent)]_vars
    /\ [](\A c \in Callers :
            LET call == fallback.calls[c] IN
            (call.op = "getItem" /\ call.pc = "done" /\ call.ret.kind = "value") =>
                IF call.ret.content # Absent
                THEN /\ call.ret.content = call.item
                     /\ call.queried = 1..call.i
                     /\ call.written = 1..(call.i - 1)
                     /\ AwaitedWrites(c) = {}
                ELSE /\ call.queried = Storages
                     /\ call.written = {})

\* A getItem found the key in the second storage only, wrote the item to the
\* primary and returned it; the third storage was neither asked nor written.
C30_Witness ==
    \E c \in Callers :
        LET call == fallback.calls[c] IN
        /\ call.op = "getItem"
        /\ call.pc = "done"
        /\ call.i = 2
        /\ call.ret = Value(call.item)
        /\ call.item # Absent
        /\ call.queried = {1, 2}
        /\ call.written = {1}
        /\ fallback.storages[1][call.key] = call.item
        /\ fallback.storages[3][call.key] = Absent
        /\ fallback.issued = 1

\* ------------------------------------------- removeItem of a FallbackStorage
\* fallbackStorage.ts:49-50: removeItem sends removeItem(key) to every
\* storage and awaits them together.  A removal in flight is a Write of no
\* item: the storage that performs it drops the key.
FallbackRemoveItem(c, key) ==
    /\ fallback.calls[c].pc = "idle"
    /\ c \in limits.callers
    /\ fallback.issued < limits.invocations
    /\ fallback' = [fallback EXCEPT
           !.issued = @ + 1,
           !.writes = @ \cup {Write(fallback.issued + 1, c, i, key, Absent, TRUE) :
                                  i \in Storages},
           !.calls[c] = [IdleFallbackCall EXCEPT
               !.op = "removeItem", !.pc = "removeItem",
               !.call = fallback.issued + 1, !.key = key]]
    /\ UNCHANGED <<now, storage, calls, revalidationQueues, invocations,
                   unhandledRejections, wrappers, limits, decorated>>

\* fallbackStorage.ts:50-51: every storage has removed, removeItem returns
FallbackRemoveItemResume(c) ==
    /\ fallback.calls[c].pc = "removeItem"
    /\ AwaitedWrites(c) = {}
    /\ fallback' = [fallback EXCEPT
           !.calls[c].pc = "done",
           !.calls[c].ret = Value(Absent)]
    /\ UNCHANGED <<now, storage, calls, revalidationQueues, invocations,
                   unhandledRejections, wrappers, limits, decorated>>

\* getItem and removeItem of one key, no setItem
NextRemove ==
    \/ \E c \in Callers, k \in FallbackKeys : FallbackGetItem(c, k)
    \/ \E c \in Callers : FallbackGetItemResume(c)
    \/ \E c \in Callers : FallbackWriteBackResume(c)
    \/ \E c \in Callers, k \in FallbackKeys : FallbackRemoveItem(c, k)
    \/ \E c \in Callers : FallbackRemoveItemResume(c)
    \/ \E w \in fallback.writes : WriteSettle(w)
    \/ \E c \in Callers : FallbackFinish(c)

SpecRemove == InitFallback /\ [][NextRemove]_vars

\* C31: while a removeItem has completed (and no setItem is ever made), no
\* storage holds its key.
C31_RemovedStaysRemoved ==
    \A c \in Callers :
        (fallback.calls[c].op = "removeItem" /\ fallback.calls[c].pc = "done") =>
            \A i \in Storages :
                fallback.storages[i][fallback.calls[c].key] = Absent

\* ------------------------------------------------- read-triggered eviction
\* C32: the removal that getItem makes for an expired entry removes only the
\* entry it read and classified: when getItem of caller c goes on to remove
\* its key, the storage holds under that key the entry the call read, or
\* nothing.
C32_EvictsOnlyClassifiedEntry ==
    [][\A c \in Callers :
           (calls[c].pc = "getItem" /\ calls'[c].pc = "unsetKey") =>
               Written(c) \in {Absent, calls[c].item}]_vars

\* C33: an entry whose age is within its stale boundary at every clock read
\* of a getItem call is not classified expired by that call and is not
\* removed by it, wherever createdAt + ttl falls between the clock reads.
C33_WithinStaleBoundaryNeverExpired ==
    [][\A c \in Callers :
           (/\ calls[c].pc = "getItem" /\ calls[c].item # Absent /\ Changed(c)
            /\ calls[c].item.meta.staleTtl # Null
            /\ now' <= calls[c].item.meta.createdAt
                           + calls[c].item.meta.staleTtl) =>
               (calls'[c].state # "expired" /\ storage' = storage)]_vars

\* ------------------------------------------------ order of stored results
\* C34: an entry is never replaced by the result of an invocation that
\* started before the invocation whose result the entry holds (invocations
\* are numbered in the order they start).
C34_NoRollbackToEarlierInvocation ==
    [][\A s \in Containers, k \in AllKeys :
           (storage[s][k] # Absent /\ storage'[s][k] # Absent) =>
               storage'[s][k].content.id >= storage[s][k].content.id]_vars

\* ------------------------------ one operation wrapped over two containers
\* Two wrappers of one operation name and prefix, bound to containers A and
\* B: their keys and their queue name are the same, and the queue is the one
\* of the process (withCache.ts:5, 74-81).  The operation resolves and
\* shouldStore is the default.
NextShared ==
    \/ \E c \in Callers, w \in AllWrappers, p \in Params : CallWrapped(c, w, p)
    \/ \E c \in Callers : getItemResume(c)
    \/ \E c \in Callers : unsetKeyResume(c)
    \/ \E c \in Callers : ReturnFresh(c)
    \/ \E c \in Callers : ReturnStale(c)
    \/ \E c \in Callers : AwaitRefreshedItem(c)
    \/ \E c \in Callers, store_it \in BOOLEAN : OperationResolve(c, store_it)
    \/ \E c \in Callers : ReturnRefreshed(c)
    \/ \E c \in Callers : Finish(c)
    \/ \E qn \in QueueNames : \E t \in RunningTasks(qn), store_it \in BOOLEAN :
           JobOperationResolve(qn, t, store_it)
    \/ \E qn \in QueueNames : \E t \in RunningTasks(qn) : JobSettle(qn, t)
    \/ \E qn \in QueueNames : JobNext(qn)
    \/ Tick

InitShared ==
    /\ InitState
    /\ wrappers = {WSwr1, WShared}
    /\ limits = Limits(NumCallersQueue, MaxInvocationsPrefix, MaxTime)

\* The steps the event loop takes by itself: the continuation of a call whose
\* awaited promise has settled, and the steps of a started job (its operation
\* settles, its promise settles, the queue's next microtask).  New calls and
\* the passing of time are not forced.
CallSteps ==
    \E c \in Callers :
        \/ getItemResume(c) \/ unsetKeyResume(c)
        \/ ReturnFresh(c) \/ ReturnStale(c) \/ AwaitRefreshedItem(c)
        \/ \E store_it \in BOOLEAN : OperationResolve(c, store_it)
        \/ ReturnRefreshed(c)

JobSteps(qn) ==
    \/ \E t \in RunningTasks(qn), store_it \in BOOLEAN :
           JobOperationResolve(qn, t, store_it)
    \/ \E t \in RunningTasks(qn) : JobSettle(qn, t)
    \/ JobNext(qn)

FairShared ==
    /\ WF_vars(CallSteps)
    /\ \A qn \in QueueNames : WF_vars(JobSteps(qn))

SpecShared == InitShared /\ [][NextShared]_vars /\ FairShared

\* The keys and results of the run of SpecShared.
SharedKeys == {CacheKey(WSwr1, p) : p \in Params}
SharedResults == 1..MaxInvocationsPrefix

InitLive ==
    /\ InitState
    /\ wrappers = WrappersSpec
    /\ limits = Limits(NumCallersQueue, MaxInvocationsPrefix, MaxTime)

JobProgress(qn) ==
    \/ JobSteps(qn)
    \/ \E t \in RunningTasks(qn) : JobOperationReject(qn, t)

FairLive == \A qn \in QueueNames : WF_vars(JobProgress(qn))

SpecLive == InitLive /\ [][Next]_vars /\ FairLive

\* The invocation numbers of the tasks running in queue q, and the job a
\* running task was started from.
RunningInvs(q) == {t.inv : t \in q.runningTasks}
JobOf(t) == Job(t.id, t.w, t.parameters)

\* No job waits and no task runs.
Drained ==
    \A qn \in QueueNames :
        revalidationQueues[qn] # Absent =>
            /\ revalidationQueues[qn].queue = <<>>
            /\ revalidationQueues[qn].runningTasks = {}

CallStep(c) ==
    calls[c].pc = "idle" /\ calls'[c].pc = "getItem" /\ calls'[c].via = "withCache"

InitOverwrite ==
    /\ InitState
    /\ wrappers = {}
    /\ limits = Limits(NumCallers, 0, MaxTtl)

SpecOverwrite == InitOverwrite /\ [][NextSetItem]_vars

\* C38: a setItem on a key that holds an entry leaves under the key exactly
\* the entry of this write (its content, its ttl, the stale boundary made of
\* its ttl and staleTtl, and the time of this write as createdAt) whatever
\* the entry before was, leaves every other key as it was, and the call then
\* returns without an error.
C38_OverwriteReplacesWholeEntry ==
    [][\A c \in Callers :
        /\ (SetItemStep(c) /\ storage[calls'[c].container][calls'[c].key] # Absent) =>
               /\ SetItemWritten(c) =
                      [content |-> SetItemOptions(c).content,
                       meta |-> [createdAt |-> now,
                                 ttl |-> SetItemOptions(c).ttl,
                                 staleTtl |-> finalStaleTtl(SetItemOptions(c).ttl,
                                                           SetItemOptions(c).staleTtl)]]
               /\ \A s \in Containers, k \in AllKeys :
                      <<s, k>> # <<calls'[c].container, calls'[c].key>> =>
                          storage'[s][k] = storage[s][k]
        /\ (calls[c].pc = "setItem" /\ Changed(c)) =>
               /\ calls'[c].pc = "done"
               /\ calls'[c].ret = Value(Absent)
               /\ storage' = storage]_vars

\* Two setItem calls of one key have written, the second at a later time and
\* with other content and another ttl; the entry is the second one's.
C38_Witness ==
    \E c, d \in Callers :
        /\ calls[c].pc = "setItem"
        /\ calls[d].pc = "setItem"
        /\ calls[c].key = calls[d].key
        /\ calls[c].container = calls[d].container
        /\ calls[c].parameters.content # calls[d].parameters.content
        /\ calls[c].parameters.ttl = Null
        /\ calls[d].parameters.ttl = 1
        /\ now > 0
        /\ Written(d) = setItemValue(calls[d].parameters.content, 1,
                                     calls[d].parameters.staleTtl, now)

\* ================================================== the Cache decorator
\* decorator.ts:22-96.  Cache(container, options) decorates method m of
\* class C: target is C.prototype, and __node_ts_cache_method_run_queue on it
\* maps a cache key to the promise of the run in flight for it (runQueue,
\* 0 for undefined).  A run is the async function of lines 66-87; runs are
\* numbered in the order they start.  The container is the CacheContainer
\* of cacheContainer.ts over container A.
DecoratorContainer == "A"
\* the options given to Cache: a ttl and no stale window
DecoratorOptions == [ttl |-> 1, staleTtl |-> Null]

IdleDecoratedCall == [pc |-> "idle", key |-> <<>>, run |-> 0, ret |-> NoReturn]

Runs == 1..MaxInvocations

InitDecorated ==
    /\ now = 0
    /\ storage = [s \in Containers |-> [k \in AllKeys |-> Absent]]
    /\ calls = [c \in Callers |-> IdleCall]
    /\ revalidationQueues = [qn \in QueueNames |-> Absent]
    /\ invocations = 0
    /\ unhandledRejections = {}
    /\ wrappers = {}
    /\ limits = Limits(NumCallers, MaxInvocations, MaxTtl)
    /\ fallback = Absent
    /\ decorated = [runQueue |-> [k \in DecoratedKeys |-> 0],
                    runs |-> [r \in Runs |-> Absent],
                    started |-> 0,
                    calls |-> [c \in Callers |-> IdleDecoratedCall]]

\* decorator.ts:39-68 and 89: a call of the decorated method.  With a
\* marker under its key it returns that promise (lines 60-64); otherwise it
\* starts a run, which goes to its await of container.getItem (line 68,
\* cacheContainer.ts:42), stores the run's promise under the key (line 66)
\* and returns it (line 89).
DecoratedCall(c, args) ==
    /\ decorated.calls[c].pc = "idle"
    /\ c \in limits.callers
    /\ LET key == jsonCalculateKey("C", "m", args)
           marker == decorated.runQueue[key]
           r == decorated.started + 1
       IN IF marker # 0
          THEN decorated' = [decorated EXCEPT
                   !.calls[c] = [pc |-> "awaitRun", key |-> key,
                                 run |-> marker, ret |-> NoReturn]]
          ELSE /\ decorated.started < limits.invocations
               /\ decorated' = [decorated EXCEPT
                      !.started = r,
                      !.runs[r] = [key |-> key, pc |-> "getItem",
                                   item |-> LRUGetItem(storage[DecoratorContainer], key),
                                   state |-> "none", inv |-> 0,
                                   outcome |-> NoReturn],
                      !.runQueue[key] = r,
                      !.calls[c] = [pc |-> "awaitRun", key |-> key,
                                    run |-> r, ret |-> NoReturn]]
    /\ UNCHANGED <<now, storage, calls, revalidationQueues, invocations,
                   unhandledRejections, wrappers, limits, fallback>>

\* a run that settles and leaves its marker in place
runSettledMarked(d, r, outcome) ==
    [d EXCEPT !.runs[r].pc = "settled", !.runs[r].outcome = outcome]

\* decorator.ts:83-86: the finally block clears the marker of the key, and
\* the run's promise settles with the outcome
runSettled(d, r, outcome) ==
    [d EXCEPT !.runs[r].pc = "settled", !.runs[r].outcome = outcome,
              !.runQueue[d.runs[r].key] = 0]

\* decorator.ts:51-54, 78: runOriginalMethod() calls the original method
runOriginalMethod(d, r, inv) ==
    [d EXCEPT !.runs[r].pc = "operation", !.runs[r].inv = inv,
              !.runs[r].item = Absent]

InFlight(r) == decorated.runs[r] # Absent /\ decorated.runs[r].pc # "settled"

\* decorator.ts:68-78 and cacheContainer.ts:44-72: getItem resumes with the
\* item the storage gave.  No item: a miss, the original method is called.
\* An expired item is removed first; any other is a hit and the run returns
\* its content.
RunGetItemResume(r) ==
    /\ InFlight(r)
    /\ decorated.runs[r].pc = "getItem"
    /\ LET run == decorated.runs[r]
           item == run.item
       IN IF item = Absent
          THEN /\ invocations' = invocations + 1
               /\ decorated' = runOriginalMethod(decorated, r, invocations + 1)
               /\ UNCHANGED <<now, storage>>
          ELSE \E d1, d2 \in 0..1 :
               /\ now + d1 + d2 <= limits.time
               /\ now' = now + d1 + d2
               /\ invocations' = invocations
               /\ LET state == getItemState(item, now, now + d1, now + d1 + d2) IN
                  IF state = "expired"
                  THEN /\ storage' = unsetKey(storage, DecoratorContainer, run.key)
                       /\ decorated' = [decorated EXCEPT
                              !.runs[r].pc = "unsetKey",
                              !.runs[r].item = Absent,
                              !.runs[r].state = state]
                  ELSE /\ storage' = storage
                       /\ decorated' = runSettled(
                              [decorated EXCEPT !.runs[r].item = Absent,
                                                !.runs[r].state = state],
                              r, Value(getItemResult(item, state).content))
    /\ UNCHANGED <<calls, revalidationQueues, unhandledRejections, wrappers,
                   limits, fallback>>

\* cacheContainer.ts:68-69 and decorator.ts:76-78: the removal has completed,
\* getItem returns undefined: a miss, the original method is called
RunUnsetKeyResume(r) ==
    /\ InFlight(r)
    /\ decorated.runs[r].pc = "unsetKey"
    /\ invocations' = invocations + 1
    /\ decorated' = runOriginalMethod(decorated, r, invocations + 1)
    /\ UNCHANGED <<now, storage, calls, revalidationQueues,
                   unhandledRejections, wrappers, limits, fallback>>

\* decorator.ts:78-80: the original method resolved; container.setItem runs
\* to its await of storage.setItem (cacheContainer.ts:75-103)
RunMethodResolve(r) ==
    /\ InFlight(r)
    /\ decorated.runs[r].pc = "operation"
    /\ storage' = [storage EXCEPT ![DecoratorContainer] =
           LRUSetItem(@, decorated.runs[r].key,
                      setItemValue(Result(decorated.runs[r].inv),
                                   DecoratorOptions.ttl,
                                   DecoratorOptions.staleTtl, now))]
    /\ decorated' = [decorated EXCEPT !.runs[r].pc = "setItem"]
    /\ UNCHANGED <<now, calls, revalidationQueues, invocations,
                   unhandledRejections, wrappers, limits, fallback>>

\* decorator.ts:80-86: setItem has completed, the run returns methodResult
RunSetItemResume(r) ==
    /\ InFlight(r)
    /\ decorated.runs[r].pc = "setItem"
    /\ decorated' = runSettled(decorated, r, Value(Result(decorated.runs[r].inv)))
    /\ UNCHANGED <<now, storage, calls, revalidationQueues, invocations,
                   unhandledRejections, wrappers, limits, fallback>>

\* decorator.ts:78, 83-86: the original method rejected; nothing catches, the
\* finally block runs and the run rejects
RunMethodReject(r) ==
    /\ InFlight(r)
    /\ decorated.runs[r].pc = "operation"
    /\ decorated' = runSettled(decorated, r, Rejection(decorated.runs[r].inv))
    /\ UNCHANGED <<now, storage, calls, revalidationQueues, invocations,
                   unhandledRejections, wrappers, limits, fallback>>

\* decorator.ts:63 and 89: the promise a call returned has settled; its
\* caller has the outcome of the run
DecoratedReturn(c) ==
    /\ decorated.calls[c].pc = "awaitRun"
    /\ decorated.runs[decorated.calls[c].run].pc = "settled"
    /\ decorated' = [decorated EXCEPT
           !.calls[c].pc = "done",
           !.calls[c].ret = decorated.runs[decorated.calls[c].run].outcome]
    /\ UNCHANGED <<now, storage, calls, revalidationQueues, invocations,
                   unhandledRejections, wrappers, limits, fallback>>

\* The caller has its outcome and may call again.
DecoratedFinish(c) ==
    /\ decorated.calls[c].pc = "done"
    /\ decorated' = [decorated EXCEPT !.calls[c] = IdleDecoratedCall]
    /\ UNCHANGED <<now, storage, calls, revalidationQueues, invocations,
                   unhandledRejections, wrappers, limits, fallback>>

NextDecorated ==
    \/ \E c \in Callers, args \in DecoratedArgs : DecoratedCall(c, args)
    \/ \E r \in Runs : RunGetItemResume(r)
    \/ \E r \in Runs : RunUnsetKeyResume(r)
    \/ \E r \in Runs : RunMethodResolve(r)
    \/ \E r \in Runs : RunSetItemResume(r)
    \/ \E r \in Runs : RunMethodReject(r)
    \/ \E c \in Callers : DecoratedReturn(c)
    \/ \E c \in Callers : DecoratedFinish(c)
    \/ Tick

SpecDecorated == InitDecorated /\ [][NextDecorated]_vars

\* Caller c calls the decorated method in this step.
DecoratedCallStep(c) ==
    decorated.calls[c].pc = "idle" /\ decorated'.calls[c].pc = "awaitRun"

\* Run r settles in this step.
RunSettles(r) == InFlight(r) /\ decorated'.runs[r].pc = "settled"

\* C39: the marker of a key is the run in flight for that key and there is
\* no other run in flight for it; a call made while its key has a marker
\* waits for that run, starts no run and invokes nothing, and a call made
\* without one starts a run that reads the container; the original method is
\* invoked only by a run, once, after its read found nothing to return;
\* callers that waited for one run have the same outcome, the run's; the
\* step in which a run settles, resolving or rejecting, clears its marker,
\* and a run that rejects has written nothing.
C39_InFlightCallsShareOneRun ==
    /\ [](/\ \A k \in DecoratedKeys :
                decorated.runQueue[k] # 0 =>
                    /\ InFlight(decorated.runQueue[k])
                    /\ decorated.runs[decorated.runQueue[k]].key = k
          /\ \A r \in Runs :
                InFlight(r) => decorated.runQueue[decorated.runs[r].key] = r
          /\ \A c \in Callers :
                decorated.calls[c].pc = "done" =>
                    decorated.calls[c].ret
                        = decorated.runs[decorated.calls[c].run].outcome)
    /\ [][/\ \A c \in Callers :
                DecoratedCallStep(c) =>
                    LET k == decorated'.calls[c].key IN
                    IF decorated.runQueue[k] # 0
                    THEN /\ decorated'.calls[c].run = decorated.runQueue[k]
                         /\ decorated'.runs = decorated.runs
                         /\ decorated'.runQueue = decorated.runQueue
                         /\ invocations' = invocations
                         /\ storage' = storage
                    ELSE /\ decorated'.calls[c].run = decorated.started + 1
                         /\ decorated'.runQueue[k] = decorated.started + 1
                         /\ decorated'.runs[decorated.started + 1].pc = "getItem"
                         /\ decorated'.runs[decorated.started + 1].item
                                = storage[DecoratorContainer][k]
                         /\ invocations' = invocations
          /\ invocations' # invocations =>
                /\ invocations' = invocations + 1
                /\ \E r \in Runs :
                       /\ InFlight(r)
                       /\ decorated.runs[r].inv = 0
                       /\ decorated.runs[r].pc \in {"getItem", "unsetKey"}
                       /\ decorated'.runs[r].pc = "operation"
                       /\ decorated'.runs[r].inv = invocations'
          /\ \A r \in Runs :
                RunSettles(r) =>
                    /\ decorated'.runQueue[decorated.runs[r].key] = 0
                    /\ storage' = storage
                    /\ decorated'.runs[r].outcome.kind = "error" =>
                           \A k \in DecoratedKeys :
                               storage[DecoratorContainer][k] # Absent =>
                                   storage[DecoratorContainer][k].content
                                       # decorated'.runs[r].outcome.content]_vars

\* Two callers called with one key while its run was in flight; the original
\* method was invoked once and rejected; both callers have that rejection,
\* the marker is cleared and the key holds no entry.
C39_Witness ==
    \E c, d \in Callers :
        /\ c # d
        /\ decorated.calls[c].pc = "done"
        /\ decorated.calls[d].pc = "done"
        /\ decorated.calls[c].run = decorated.calls[d].run
        /\ decorated.calls[c].ret.kind = "error"
        /\ decorated.calls[d].ret = decorated.calls[c].ret
        /\ invocations = 1
        /\ decorated.runQueue[decorated.calls[c].key] = 0
        /\ storage[DecoratorContainer][decorated.calls[c].key] = Absent
====
